---- MODULE Spec2Model ----
(***************************************************************************)
(* Letter-template editor (pdftoblade): the editable-surface controller    *)
(* (RichTextEditor), the settings handlers of EditorPanel and App, the     *)
(* preview of TemplatePreview and the Blade export of App.                 *)
(*                                                                         *)
(* Markup is a sequence of atoms.  The characters that matter to the token *)
(* syntax are single atoms ("{", "}", "$", " ", "&", "_" and the words of  *)
(* a key); a run of other text is "x"; a tag that the code writes or reads *)
(* as a unit is one atom (SpanOpen, ZWSpan, ImgWritten, ...).              *)
(***************************************************************************)
EXTENDS Integers, Sequences, FiniteSets, TLC

VARIABLES view, settings, docState, activeSection, editor, syncPending,
          reading, awaiting, attachmentReads, lastSync, edits, passes, rendered,
          download, panel, generating, alerts, prompts

\* edits counts the operations of a behaviour that the bounds limit; passes
\* keeps the successive results of a repeated operation (the substitution
\* passes of a fragment, the geometry after each unit switch); rendered is
\* what TemplatePreview shows; download is the file handleDownloadBlade
\* handed to the browser; panel is the local state of the mounted
\* EditorPanel, generating counts the generateLogo calls in flight, and
\* alerts is the sequence of messages shown with alert(); prompts holds
\* the answers the user is about to give to the prompts of insertTable
vars == <<view, settings, docState, activeSection, editor, syncPending,
          reading, awaiting, attachmentReads, lastSync, edits, passes, rendered,
          download, panel, generating, alerts, prompts>>

(***************************************************************************)
(* Bounds                                                                  *)
(***************************************************************************)
\* operations that bring content into a session in one behaviour: surface
\* mutations, registry edits, attachment images and uploaded documents
MaxEdits == 1
\* pieces of a markup drawn for the substitution specification
MaxPieces == 2
\* variables of a registry drawn for the substitution specification
MaxVars == 2
\* signatures of a sequence drawn for the document specification
MaxSigs == 4
\* header-line operations in one behaviour
MaxLineEdits == 3
\* the start lengths drawn for the layout specification run from 0 to
\* MaxGeom + 5 counts of the unit's last decimal place
MaxGeom == 30
\* unit switches and preset selections in one behaviour
MaxSwitches == 4

(***************************************************************************)
(* Sequences                                                               *)
(***************************************************************************)
Range(s) == {s[i] : i \in 1..Len(s)}

Front(s) == SubSeq(s, 1, Len(s) - 1)

RECURSIVE Flatten(_)
Flatten(ss) == IF ss = <<>> THEN <<>> ELSE Head(ss) \o Flatten(Tail(ss))

SeqsUpTo(S, n) == UNION {[1..k -> S] : k \in 0..n}

(***************************************************************************)
(* Keys and tokens                                                         *)
(***************************************************************************)
\* the characters [a-zA-Z0-9_], as the words they form and the underscore
KeyAtoms == {"nama", "penerima", "tanggal", "kota", "title", "qr", "code", "_",
             "0", "1", "2", "3", "4", "5"}

nama_penerima == <<"nama", "_", "penerima">>
tanggal == <<"tanggal">>
kota == <<"kota">>
nama == <<"nama">>

\* RichTextEditor.tsx:136  `{{ $${key} }}`
Token(key) == <<"{", "{", " ", "$">> \o key \o <<" ", "}", "}">>

\* a token as a user may type it: ws spaces on either side inside the braces
TokenWs(key, wsl, wsr) ==
    <<"{", "{">> \o [i \in 1..wsl |-> " "] \o <<"$">> \o key
                 \o [i \in 1..wsr |-> " "] \o <<"}", "}">>

(***************************************************************************)
(* Preview substitution (TemplatePreview.replaceVariables)                 *)
(***************************************************************************)
\* the three literal parts of the stand-in written by replaceVariables
SpanOpen == "<span class=... title=\""
SpanMid == "\">"
SpanClose == "</span>"

\* \s* : the index of the first atom at or after i that is not whitespace
RECURSIVE SkipWs(_, _)
SkipWs(s, i) == IF i <= Len(s) /\ s[i] = " " THEN SkipWs(s, i + 1) ELSE i

\* does the literal text t occur in s at index i
Literal(s, i, t) ==
    /\ i + Len(t) - 1 <= Len(s)
    /\ \A j \in 1..Len(t) : s[i + j - 1] = t[j]

\* the index after a match at i of /\{\{\s*\$KEY\s*\}\}/, 0 when there is none
MatchEnd(s, i, key) ==
    IF ~Literal(s, i, <<"{", "{">>) THEN 0
    ELSE LET d == SkipWs(s, i + 2) IN
         IF ~Literal(s, d, <<"$">> \o key) THEN 0
         ELSE LET c == SkipWs(s, d + 1 + Len(key)) IN
              IF Literal(s, c, <<"}", "}">>) THEN c + 2 ELSE 0

\* String.prototype.replace expands $$ and $& in its replacement string
RECURSIVE ExpandReplacement(_, _)
ExpandReplacement(repl, matched) ==
    IF repl = <<>> THEN <<>>
    ELSE IF Len(repl) >= 2 /\ repl[1] = "$" /\ repl[2] = "$"
         THEN <<"$">> \o ExpandReplacement(SubSeq(repl, 3, Len(repl)), matched)
    ELSE IF Len(repl) >= 2 /\ repl[1] = "$" /\ repl[2] = "&"
         THEN matched \o ExpandReplacement(SubSeq(repl, 3, Len(repl)), matched)
    ELSE <<Head(repl)>> \o ExpandReplacement(Tail(repl), matched)

\* v.defaultValue || v.key
StandInText(v) == IF v.defaultValue # <<>> THEN v.defaultValue ELSE v.key

\* the replacement string of part_001:106
Replacement(v) ==
    <<SpanOpen, "$">> \o v.key \o <<SpanMid>> \o StandInText(v) \o <<SpanClose>>

\* the same replace without the g flag: only the first match is replaced
RECURSIVE ReplaceFirst(_, _, _)
ReplaceFirst(s, i, v) ==
    IF i > Len(s) THEN <<>>
    ELSE LET e == MatchEnd(s, i, v.key) IN
         IF e = 0 THEN <<s[i]>> \o ReplaceFirst(s, i + 1, v)
         ELSE ExpandReplacement(Replacement(v), SubSeq(s, i, e - 1))
                  \o SubSeq(s, e, Len(s))

\* content.replace(regex, replacement) with the g flag, scanning from i
RECURSIVE ReplaceAll(_, _, _)
ReplaceAll(s, i, v) ==
    IF i > Len(s) THEN <<>>
    ELSE LET e == MatchEnd(s, i, v.key) IN
         IF e = 0 THEN <<s[i]>> \o ReplaceAll(s, i + 1, v)
         ELSE ExpandReplacement(Replacement(v), SubSeq(s, i, e - 1))
                  \o ReplaceAll(s, e, v)

\* settings.variables.forEach(v => content = content.replace(...))
RECURSIVE replaceVariablesFrom(_, _, _)
replaceVariablesFrom(content, variables, n) ==
    IF n > Len(variables) THEN content
    ELSE replaceVariablesFrom(ReplaceAll(content, 1, variables[n]), variables, n + 1)

replaceVariables(html, variables) == replaceVariablesFrom(html, variables, 1)

(***************************************************************************)
(* The preview document (TemplatePreview render)                           *)
(*                                                                         *)
(* A rendered document is a sequence of elements; an element is a record   *)
(* with a tag and the parts of it that depend on the settings.             *)
(***************************************************************************)
\* the index of a signature as the template literals print it (idx)
Digit(i) == CASE i = 1 -> "0" [] i = 2 -> "1" [] i = 3 -> "2" [] i = 4 -> "3"
                [] i = 5 -> "4" [] OTHER -> "5"

\* one divider of the line stack: its width, style, colour and margins
LineStyle(line) ==
    [width |-> line.width, style |-> line.style, color |-> line.color,
     marginTop |-> line.marginTop, marginBottom |-> line.marginBottom]

\* HeaderLines   part_001:125-140
HeaderLines(s) ==
    [tag |-> "header-lines",
     lines |-> [i \in 1..Len(s.headerLines) |-> LineStyle(s.headerLines[i])]]

\* HeaderComponent   part_001:142-154
HeaderComponent(s, processedHeader) ==
    <<[tag |-> "header", logo |-> IF s.logoUrl # "" THEN s.logoUrl ELSE "none",
       html |-> processedHeader],
      HeaderLines(s)>>

\* const isLast = idx === total - 1   part_001:181
previewIsLast(idx, total) == idx = total

\* wrapperClass   part_001:183-196
wrapperClass(sig, idx, total) ==
    IF total = 1
    THEN CASE sig.align = "left" -> "col-span-2 flex flex-col items-start text-left"
           [] sig.align = "center" -> "col-span-2 flex flex-col items-center text-center"
           [] OTHER -> "col-span-2 flex flex-col items-end text-center"
    ELSE IF total % 2 # 0 /\ previewIsLast(idx, total)
         THEN "col-span-2 justify-self-center"
         ELSE "justify-self-center"

\* one entry of the signature grid   part_001:198-210
PreviewSignature(s, idx) ==
    LET sig == s.signatures[idx]
        total == Len(s.signatures) IN
    [class |-> wrapperClass(sig, idx, total),
     label |-> sig.label,
     dateLine |-> IF previewIsLast(idx, total)
                  THEN s.signatureCity \o <<",", " ">> \o Token(tanggal)
                  ELSE <<>>,
     mark |-> IF sig.type = "wet" THEN <<>> ELSE <<"QR Placeholder">>,
     name |-> sig.name,
     title |-> sig.title]

\* the footer of a page   part_001:216-218, 246-248
PreviewFooter(s, p) ==
    IF s.showFooter THEN <<[tag |-> "footer", html |-> p.processedFooter]>> ELSE <<>>

\* Page 1: Letter   part_001:159-221
PreviewLetter(s, p) ==
    (IF s.showKop THEN HeaderComponent(s, p.processedHeader) ELSE <<>>)
    \o <<[tag |-> "content-body", html |-> p.processedContent]>>
    \o (IF s.showSignature /\ Len(s.signatures) > 0
        THEN <<[tag |-> "signatures",
                entries |-> [i \in 1..Len(s.signatures) |-> PreviewSignature(s, i)]]>>
        ELSE <<>>)
    \o PreviewFooter(s, p)

\* an attachment page that always repeats the header and has no footer
PreviewAttachmentBare(s, p) ==
    HeaderComponent(s, p.processedHeader)
    \o <<[tag |-> "attachment", html |-> p.processedAttachment]>>

\* Page 2: Attachments   part_001:224-252
PreviewAttachment(s, p) ==
    (IF s.attachmentShowKop THEN HeaderComponent(s, p.processedHeader) ELSE <<>>)
    \o <<[tag |-> "attachment", html |-> p.processedAttachment]>>
    \o PreviewFooter(s, p)

\* the pages of the preview   part_001:156-254
PreviewPages(s, p) ==
    <<PreviewLetter(s, p)>>
    \o (IF s.hasAttachment THEN <<PreviewAttachment(s, p)>> ELSE <<>>)

\* the four useMemo results of TemplatePreview (part_001:111-114)
ProcessedFragments(s) ==
    [processedContent    |-> replaceVariables(s.rawHtmlContent, s.variables),
     processedHeader     |-> replaceVariables(s.headerContent, s.variables),
     processedAttachment |-> replaceVariables(s.attachmentContent, s.variables),
     processedFooter     |-> replaceVariables(s.footerContent, s.variables)]

\* what TemplatePreview shows: the processed fragments and the pages built
\* from them
Processed(s) ==
    LET p == ProcessedFragments(s) IN
    [shown               |-> TRUE,
     processedContent    |-> p.processedContent,
     processedHeader     |-> p.processedHeader,
     processedAttachment |-> p.processedAttachment,
     processedFooter     |-> p.processedFooter,
     pages               |-> PreviewPages(s, p)]

(***************************************************************************)
(* Surface markup                                                          *)
(***************************************************************************)
\* RichTextEditor.tsx:115-116  <span style="font-size: Npt">​</span>
ZWSpan == "<span style=font-size>\\u200B</span>"
\* EditorPanel.tsx:109  <br><img src=... style=... /><br>, as the code writes it
ImgWritten == "<br><img ... /><br>"
\* the same element as element.innerHTML serialises it (no self-closing slash)
ImgSerialized == "<br><img ...><br>"

\* element.innerHTML = m; element.innerHTML : the markup is parsed into the
\* DOM and read back in serialised form
DomHtml(m) == [i \in 1..Len(m) |-> IF m[i] = ImgWritten THEN ImgSerialized ELSE m[i]]

InsertAt(m, pos, t) == SubSeq(m, 1, pos) \o t \o SubSeq(m, pos + 1, Len(m))

\* caret positions offered to the user: the start and the end of the text
CaretPositions(m) == {0, Len(m)}

(***************************************************************************)
(* Settings (App DEFAULT_SETTINGS) and the regions of EditorPanel          *)
(***************************************************************************)
\* A geometry value is stored as the integer count of the last decimal place
\* that convertValue keeps for its unit: 1/100 mm, 1/100 cm, 1/1000 in.
\* signatureCity is absent from the DEFAULT_SETTINGS object literal and
\* renders as nothing: it is the empty text here.
DEFAULT_SETTINGS ==
    [pageSize          |-> "A4",
     unit              |-> "cm",
     pageWidth         |-> 2100,
     pageHeight        |-> 2970,
     marginTop         |-> 400,
     marginRight       |-> 300,
     marginBottom      |-> 300,
     marginLeft        |-> 400,
     showKop           |-> TRUE,
     headerContent     |-> <<"x">>,
     headerLines       |-> <<[id |-> <<"l", 1>>, width |-> 3, style |-> "solid",
                              color |-> "#000000", marginTop |-> 8, marginBottom |-> 2],
                             [id |-> <<"l", 2>>, width |-> 1, style |-> "solid",
                              color |-> "#000000", marginTop |-> 0, marginBottom |-> 0]>>,
     logoUrl           |-> "https://upload.wikimedia.org/...png",
     rawHtmlContent    |-> <<"x">> \o Token(nama_penerima) \o <<"x">>,
     hasAttachment     |-> FALSE,
     attachmentShowKop |-> FALSE,
     attachmentContent |-> <<"x">>,
     showFooter        |-> FALSE,
     footerContent     |-> <<"x">>,
     variables         |-> <<[id |-> <<"v", 1>>, key |-> nama_penerima,
                              label |-> <<"Nama", " ", "Penerima">>,
                              defaultValue |-> <<"x">>],
                             [id |-> <<"v", 2>>, key |-> tanggal,
                              label |-> <<"Tanggal", " ", "Surat">>,
                              defaultValue |-> <<"x">>]>>,
     showSignature     |-> TRUE,
     signatureCity     |-> <<>>,
     signatures        |-> <<[id |-> "s1", name |-> "Prof. Dr. H. Rosihon Anwar, M.Ag",
                              title |-> "Rektor", type |-> "wet",
                              label |-> "Mengetahui,", align |-> "right"]>>]

Regions == {"header", "content", "attachments", "footer"}

Sections == {"layout", "header", "content", "attachments", "footer", "variables"}

\* the settings field bound to the content prop of each region's editor
\* (EditorPanel.tsx:358, 430-431, 559-560, 586-587)
Field(r) == CASE r = "header" -> "headerContent"
              [] r = "content" -> "rawHtmlContent"
              [] r = "attachments" -> "attachmentContent"
              [] r = "footer" -> "footerContent"

Content(s, r) == s[Field(r)]

\* only the body and attachment editors are given onAddVariable
HasOnAddVariable(r) == r \in {"content", "attachments"}

\* the editor that the render mounts (EditorPanel.tsx:320-327, 415, 511-540,
\* 574-585; part_008:454-494)
MountedRegion(v, section, s) ==
    IF v # "EDITOR" THEN "none"
    ELSE CASE section = "header" /\ s.showKop -> "header"
           [] section = "content" -> "content"
           [] section = "attachments" /\ s.hasAttachment -> "attachments"
           [] section = "footer" /\ s.showFooter -> "footer"
           [] OTHER -> "none"

NoEditor == [region |-> "none", html |-> <<>>, focused |-> FALSE]

\* the local state of a newly mounted EditorPanel   EditorPanel.tsx:22-23
NoPanel == [logoPrompt |-> <<>>, isGeneratingLogo |-> FALSE, calls |-> 0]

\* EditorPanel is rendered in the EDITOR view only (part_008:453-496): a
\* render without it discards its local state
PanelRendered(v2, p2) == IF v2 = "EDITOR" THEN p2 ELSE NoPanel

\* The render that follows a handler: an editor whose region is no longer
\* rendered is unmounted, a newly rendered one is mounted with an empty
\* surface, and useEffect([content]) is scheduled on mount and whenever the
\* content prop differs from the previous render's.
Rendered(ed, v2, section2, s2) ==
    LET r2 == MountedRegion(v2, section2, s2) IN
    IF r2 # ed.region
    THEN [editor |-> [region |-> r2, html |-> <<>>, focused |-> FALSE],
          sync |-> r2 # "none"]
    ELSE [editor |-> ed,
          sync |-> r2 # "none" /\ Content(s2, r2) # Content(settings, r2)]

CommitPanel(ed, v2, section2, s2, p2) ==
    /\ view' = v2
    /\ activeSection' = (IF v2 = "EDITOR" THEN section2 ELSE "content")
    /\ settings' = s2
    /\ editor' = Rendered(ed, v2, section2, s2).editor
    /\ syncPending' = Rendered(ed, v2, section2, s2).sync
    /\ panel' = PanelRendered(v2, p2)

Commit(ed, v2, section2, s2) == CommitPanel(ed, v2, section2, s2, panel)

\* lastSync is what the sync effect did when it last ran after the latest
\* handler ("none" while it has not run): "equal" and "suppressed" leave the
\* surface alone, "overwrite" and "cleared" assign its innerHTML
NoSync == "none"

(***************************************************************************)
(* RichTextEditor                                                          *)
(***************************************************************************)
\* the effect without the focus test: every difference is overwritten
SyncOutcomeUnguarded(content, currentHtml, focused) ==
    IF content = currentHtml THEN "equal" ELSE "overwrite"

\* the effect with the focus test inverted
SyncOutcomeInverted(content, currentHtml, focused) ==
    IF content = currentHtml THEN "equal"
    ELSE IF focused THEN "overwrite"
    ELSE IF content = <<>> /\ currentHtml # <<>> THEN "cleared"
    ELSE "suppressed"

\* the effect as a blind sync: the surface is assigned on every run
SyncOutcomeBlind(content, currentHtml, focused) == "overwrite"

\* useEffect(() => {...}, [content])   RichTextEditor.tsx:34-47
SyncOutcome(content, currentHtml, focused) ==
    IF content = currentHtml THEN "equal"
    ELSE IF ~focused THEN "overwrite"
    ELSE IF content = <<>> /\ currentHtml # <<>> THEN "cleared"
    ELSE "suppressed"

SyncHtml(content, currentHtml, focused) ==
    LET o == SyncOutcome(content, currentHtml, focused) IN
    CASE o = "overwrite" -> DomHtml(content)
      [] o = "cleared" -> <<>>
      [] OTHER -> currentHtml

RunSync ==
    /\ syncPending
    /\ LET content == Content(settings, editor.region) IN
       /\ editor' = [editor EXCEPT !.html = SyncHtml(content, editor.html, editor.focused)]
       /\ lastSync' = SyncOutcome(content, editor.html, editor.focused)
    /\ syncPending' = FALSE
    /\ UNCHANGED <<view, settings, docState, activeSection, reading, awaiting,
                   attachmentReads, edits, passes, rendered,
                   download,
                   panel, generating, alerts, prompts>>

\* handleInput   RichTextEditor.tsx:49-56, with onChange bound to
\* updateSetting(Field(region), html)   EditorPanel.tsx:26-28
Propagates(html, content) == html # content

\* handleInput with onChange bound to the body field for every region
handleInputBody(s, r, html) ==
    IF Propagates(html, Content(s, r)) THEN [s EXCEPT !.rawHtmlContent = html] ELSE s

handleInput(s, r, html) ==
    IF Propagates(html, Content(s, r)) THEN [s EXCEPT ![Field(r)] = html] ELSE s

Idle == ~syncPending

Mounted == editor.region # "none"

\* the user clicks into the surface, or moves the focus out of it
FocusSurface ==
    /\ Idle /\ Mounted /\ ~editor.focused
    /\ editor' = [editor EXCEPT !.focused = TRUE]
    /\ lastSync' = NoSync
    /\ UNCHANGED <<view, settings, docState, activeSection, syncPending, reading,
                   awaiting, attachmentReads, edits, passes, rendered,
                   download,
                   panel, generating, alerts, prompts>>

BlurSurface ==
    /\ Idle /\ Mounted /\ editor.focused
    /\ editor' = [editor EXCEPT !.focused = FALSE]
    /\ lastSync' = NoSync
    /\ UNCHANGED <<view, settings, docState, activeSection, syncPending, reading,
                   awaiting, attachmentReads, edits, passes, rendered,
                   download,
                   panel, generating, alerts, prompts>>

\* what one keystroke can do to the surface: type a character at the end,
\* delete the last atom, or delete everything (select all, delete)
Keystrokes(m) ==
    {Append(m, "x")} \cup (IF m = <<>> THEN {} ELSE {Front(m), <<>>})

\* onInput={handleInput}   RichTextEditor.tsx:244
RawInput(html) ==
    /\ Idle /\ Mounted /\ editor.focused /\ edits < MaxEdits
    /\ html \in Keystrokes(editor.html)
    /\ Commit([editor EXCEPT !.html = html], view, activeSection,
              handleInput(settings, editor.region, html))
    /\ lastSync' = NoSync
    /\ edits' = edits + 1
    /\ UNCHANGED <<docState, reading, awaiting, attachmentReads, passes, rendered,
                   download,
                   generating, alerts, prompts>>

\* applyFontSize   RichTextEditor.tsx:104-128.  It runs from the size input's
\* onBlur / Enter, so the surface does not hold focus; sel is what
\* window.getSelection() returns then: no range, a range outside the
\* surface, a caret in it, a range that surroundContents can wrap, or one
\* that crosses an element boundary (surroundContents throws).
SizeOpen == "<span style=font-size>"
SizeClose == "</span>"
FontOpen == "<font size=3>"
FontClose == "</font>"

Selections == {"none", "elsewhere", "collapsed", "range", "crossing"}

FontSizeHtml(m, sel, pos) ==
    CASE sel = "collapsed" -> InsertAt(m, pos, <<ZWSpan>>)
      [] sel = "range" -> <<SizeOpen>> \o m \o <<SizeClose>>
      [] sel = "crossing" -> <<FontOpen>> \o m \o <<FontClose>>
      [] OTHER -> m

applyFontSize(sel, pos) ==
    /\ Idle /\ Mounted /\ ~editor.focused /\ edits < MaxEdits
    /\ sel \in {"range", "crossing"} => editor.html # <<>>
    /\ LET html == FontSizeHtml(editor.html, sel, pos)
           s2 == IF sel = "none" THEN settings
                 ELSE handleInput(settings, editor.region, html) IN
       /\ Commit([editor EXCEPT !.html = html], view, activeSection, s2)
       /\ lastSync' = NoSync
    /\ edits' = IF sel \in {"none", "elsewhere"} THEN edits ELSE edits + 1
    /\ UNCHANGED <<docState, reading, awaiting, attachmentReads, passes, rendered,
                   download,
                   generating, alerts, prompts>>

(***************************************************************************)
(* The toolbar commands of RichTextEditor                                  *)
(***************************************************************************)
\* the commands bound to execCmd   RichTextEditor.tsx:158-169, 205
Commands == {"bold", "italic", "underline", "strikeThrough", "justifyLeft",
             "justifyCenter", "justifyRight", "justifyFull",
             "insertUnorderedList", "insertOrderedList", "foreColor"}

\* the element document.execCommand puts around the selected content
CommandOpen(command) ==
    CASE command = "bold" -> "<b>"
      [] command = "italic" -> "<i>"
      [] command = "underline" -> "<u>"
      [] command = "strikeThrough" -> "<strike>"
      [] command = "justifyLeft" -> "<div style=text-align:left>"
      [] command = "justifyCenter" -> "<div style=text-align:center>"
      [] command = "justifyRight" -> "<div style=text-align:right>"
      [] command = "justifyFull" -> "<div style=text-align:justify>"
      [] command = "insertUnorderedList" -> "<ul><li>"
      [] command = "insertOrderedList" -> "<ol><li>"
      [] command = "foreColor" -> "<font color>"
      [] command = "fontName" -> "<font face>"

CommandClose(command) ==
    CASE command \in {"bold"} -> "</b>"
      [] command = "italic" -> "</i>"
      [] command = "underline" -> "</u>"
      [] command = "strikeThrough" -> "</strike>"
      [] command \in {"justifyLeft", "justifyCenter", "justifyRight", "justifyFull"}
            -> "</div>"
      [] command = "insertUnorderedList" -> "</li></ul>"
      [] command = "insertOrderedList" -> "</li></ol>"
      [] command \in {"foreColor", "fontName"} -> "</font>"

\* document.execCommand(command, false, value): the command changes the
\* markup when the selection holds content of the surface (applies), and
\* leaves it as it is with a caret or with the selection elsewhere
ExecCommand(m, command, applies) ==
    IF applies /\ m # <<>>
    THEN <<CommandOpen(command)>> \o m \o <<CommandClose(command)>>
    ELSE m

\* execCmd   RichTextEditor.tsx:58-62; keepsFocus is whether the click on
\* the toolbar control left the focus in the surface, which makes no
\* difference here: editorRef.current?.focus() follows the command
execCmd(command, applies, keepsFocus) ==
    /\ Idle /\ Mounted /\ edits < MaxEdits
    /\ command \in Commands
    /\ LET html == ExecCommand(editor.html, command, applies) IN
       Commit([editor EXCEPT !.html = html, !.focused = TRUE],
              view, activeSection, handleInput(settings, editor.region, html))
    /\ lastSync' = NoSync
    /\ edits' = edits + 1
    /\ UNCHANGED <<docState, reading, awaiting, attachmentReads, passes, rendered,
                   download, generating, alerts, prompts>>

\* handleFontFamily   RichTextEditor.tsx:130-133, from the select's onChange
handleFontFamily(applies, keepsFocus) ==
    /\ Idle /\ Mounted /\ edits < MaxEdits
    /\ LET html == ExecCommand(editor.html, "fontName", applies) IN
       Commit([editor EXCEPT !.html = html, !.focused = @ /\ keepsFocus],
              view, activeSection, handleInput(settings, editor.region, html))
    /\ lastSync' = NoSync
    /\ edits' = edits + 1
    /\ UNCHANGED <<docState, reading, awaiting, attachmentReads, passes, rendered,
                   download, generating, alerts, prompts>>

\* insertHr   RichTextEditor.tsx:97-102
HrHtml == <<"<hr>", "<p><br></p>">>

insertHr(pos, keepsFocus) ==
    /\ Idle /\ Mounted /\ edits < MaxEdits
    /\ pos \in CaretPositions(editor.html)
    /\ LET html == InsertAt(editor.html, pos, HrHtml) IN
       Commit([editor EXCEPT !.html = html, !.focused = @ /\ keepsFocus],
              view, activeSection, handleInput(settings, editor.region, html))
    /\ lastSync' = NoSync
    /\ edits' = edits + 1
    /\ UNCHANGED <<docState, reading, awaiting, attachmentReads, passes, rendered,
                   download, generating, alerts, prompts>>

\* An answer to prompt() is the sequence of its characters; Cancel (null) is
\* the sequence of the one atom "null".
Cancel == <<"null">>

Digits == {"0", "1", "2", "3"}

DigitValue(c) == CASE c = "0" -> 0 [] c = "1" -> 1 [] c = "2" -> 2 [] c = "3" -> 3

\* the value of the longest prefix of digits of s from position i on
RECURSIVE LeadingDigits(_, _, _)
LeadingDigits(s, i, acc) ==
    IF i <= Len(s) /\ s[i] \in Digits
    THEN LeadingDigits(s, i + 1, 10 * acc + DigitValue(s[i]))
    ELSE acc

\* a number is <<n>>, NaN is <<>>
NaN == <<>>

\* parseInt(string): leading white space is skipped, a sign is read, then
\* the digits up to the first other character; NaN without a digit
parseInt(str) ==
    LET i == SkipWs(str, 1)
        signed == i <= Len(str) /\ str[i] \in {"-", "+"}
        j == IF signed THEN i + 1 ELSE i
        n == LeadingDigits(str, j, 0) IN
    IF ~(j <= Len(str) /\ str[j] \in Digits) THEN NaN
    ELSE IF signed /\ str[i] = "-" THEN <<0 - n>> ELSE <<n>>

\* a count read without the default
OrZero(n) == IF n = NaN THEN 0 ELSE n[1]

\* parseInt(input) || 3   RichTextEditor.tsx:70-71 (NaN and 0 are falsy)
OrThree(n) == IF n = NaN THEN 3 ELSE IF n[1] = 0 THEN 3 ELSE n[1]

Count(input) == OrThree(parseInt(input))

\* j + 1 as the template literal prints it
NumberText(n) == Digit(n + 1)

Repeat(n, cell) == Flatten([j \in 1..n |-> cell])

\* tableHtml   RichTextEditor.tsx:74-90
TableHtml(rows, cols) ==
    <<"<table>", "<thead>", "<tr>">>
    \o Flatten([j \in 1..cols |-> <<"<th>", "Header", NumberText(j), "</th>">>])
    \o <<"</tr>", "</thead>", "<tbody>">>
    \o Repeat(rows, <<"<tr>">> \o Repeat(cols, <<"<td>", "Cell", "</td>">>)
                     \o <<"</tr>">>)
    \o <<"</tbody>", "</table>", "<p><br></p>">>

\* insertTable   RichTextEditor.tsx:64-95; the second prompt is shown only
\* when the first was answered
insertTable(rowsInput, colsInput, pos, keepsFocus) ==
    /\ Idle /\ Mounted /\ edits < MaxEdits
    /\ pos \in CaretPositions(editor.html)
    /\ rowsInput = Cancel => colsInput = Cancel
    /\ IF rowsInput = Cancel \/ colsInput = Cancel
          \/ ~(Count(rowsInput) > 0 /\ Count(colsInput) > 0)
       THEN /\ editor' = [editor EXCEPT !.focused = @ /\ keepsFocus]
            /\ UNCHANGED <<view, settings, activeSection, syncPending, panel>>
       ELSE LET html == InsertAt(editor.html, pos,
                                 TableHtml(Count(rowsInput), Count(colsInput))) IN
            Commit([editor EXCEPT !.html = html, !.focused = @ /\ keepsFocus],
                   view, activeSection, handleInput(settings, editor.region, html))
    /\ lastSync' = NoSync
    /\ edits' = edits + 1
    /\ UNCHANGED <<docState, reading, awaiting, attachmentReads, passes, rendered,
                   download, generating, alerts, prompts>>

(***************************************************************************)
(* Variable insertion (RichTextEditor) and the registry (EditorPanel)      *)
(***************************************************************************)
Keys(variables) == {variables[i].key : i \in 1..Len(variables)}

\* key.replace(/_/g, ' ')
Label(key) == [i \in 1..Len(key) |-> IF key[i] = "_" THEN " " ELSE key[i]]

\* handleAddVariable   EditorPanel.tsx:122-132; variables is settings.variables
\* of the render the handler was created in, now is Date.now()
handleAddVariable(s, variables, key, now) ==
    IF key \in Keys(variables) THEN s
    ELSE [s EXCEPT !.variables =
            Append(variables, [id |-> <<"var-", now>>, key |-> key,
                               label |-> Label(key),
                               defaultValue |-> <<"[">> \o key \o <<"]">>])]

\* `if (onAddVariable) onAddVariable(key)`   RichTextEditor.tsx:140
Registers(r) == HasOnAddVariable(r)

\* Date.now(): later for every user operation
Now == edits + 1

\* insertVariable   RichTextEditor.tsx:135-141; pos is the caret, keepsFocus
\* is whether the click on the menu left the focus in the surface
insertVariable(key, pos, keepsFocus) ==
    /\ Idle /\ Mounted /\ edits < MaxEdits
    /\ pos \in CaretPositions(editor.html)
    /\ LET r == editor.region
           html == InsertAt(editor.html, pos, Token(key))
           s1 == handleInput(settings, r, html)
           s2 == IF Registers(r)
                 THEN handleAddVariable(s1, settings.variables, key, Now)
                 ELSE s1 IN
       /\ Commit([editor EXCEPT !.html = html, !.focused = @ /\ keepsFocus],
                 view, activeSection, s2)
       /\ lastSync' = NoSync
    /\ edits' = edits + 1
    /\ UNCHANGED <<docState, reading, awaiting, attachmentReads, passes, rendered,
                   download,
                   generating, alerts, prompts>>

\* a click on one of the availableVariables buttons   RichTextEditor.tsx:230-234
InsertFromMenu(key, pos, keepsFocus) ==
    /\ Mounted /\ HasOnAddVariable(editor.region)
    /\ key \in Keys(settings.variables)
    /\ insertVariable(key, pos, keepsFocus)

\* name.replace(/[^a-zA-Z0-9_]/g, '')
RECURSIVE CleanName(_)
CleanName(name) ==
    IF name = <<>> THEN <<>>
    ELSE (IF Head(name) \in KeyAtoms THEN <<Head(name)>> ELSE <<>>) \o CleanName(Tail(name))

\* promptNewVariable   RichTextEditor.tsx:143-149; name <<>> is Cancel or an
\* empty answer
promptNewVariable(name, pos, keepsFocus) ==
    IF name # <<>>
    THEN insertVariable(CleanName(name), pos, keepsFocus)
    ELSE /\ Idle /\ Mounted /\ pos = 0 /\ keepsFocus
         /\ lastSync' = NoSync
         /\ UNCHANGED <<view, settings, docState, activeSection, editor,
                        syncPending, reading, awaiting, attachmentReads,
                        edits, passes, rendered,
                   download,
                   panel, generating, alerts, prompts>>

(***************************************************************************)
(* EditorPanel                                                             *)
(***************************************************************************)
InEditor == Idle /\ view = "EDITOR"

\* setActiveSection   EditorPanel.tsx:200
setActiveSection(tab) ==
    /\ InEditor /\ tab # activeSection
    /\ Commit(editor, view, tab, settings)
    /\ lastSync' = NoSync
    /\ UNCHANGED <<docState, reading, awaiting, attachmentReads, edits, passes, rendered,
                   download,
                   generating, alerts, prompts>>

\* the three checkboxes that show or hide an editor
\* EditorPanel.tsx:323, 522, 580
SectionFlag(section) == CASE section = "header" -> "showKop"
                          [] section = "attachments" -> "hasAttachment"
                          [] section = "footer" -> "showFooter"

updateSettingFlag(flag) ==
    /\ InEditor
    /\ activeSection \in {"header", "attachments", "footer"}
    /\ flag = SectionFlag(activeSection)
    /\ Commit(editor, view, activeSection, [settings EXCEPT ![flag] = ~@])
    /\ lastSync' = NoSync
    /\ UNCHANGED <<docState, reading, awaiting, attachmentReads, edits, passes, rendered,
                   download,
                   generating, alerts, prompts>>

\* updateVariable   EditorPanel.tsx:134-137, called for the label and
\* defaultValue inputs (EditorPanel.tsx:616, 625)
VariableFields == {"label", "defaultValue"}

updateVariableIn(variables, id, field, value) ==
    [i \in 1..Len(variables) |->
        IF variables[i].id = id THEN [variables[i] EXCEPT ![field] = value]
        ELSE variables[i]]

updateVariable(i, field, value) ==
    /\ InEditor /\ activeSection = "variables" /\ edits < MaxEdits
    /\ i \in 1..Len(settings.variables)
    /\ field \in VariableFields
    /\ settings.variables[i][field] # value
    /\ Commit(editor, view, activeSection,
              [settings EXCEPT !.variables =
                  updateVariableIn(settings.variables, settings.variables[i].id,
                                   field, value)])
    /\ lastSync' = NoSync
    /\ edits' = edits + 1
    /\ UNCHANGED <<docState, reading, awaiting, attachmentReads, passes, rendered,
                   download,
                   generating, alerts, prompts>>

\* handleAttachmentUpload   EditorPanel.tsx:101-120: the reader is started;
\* its onload keeps the settings of the render the handler ran in
handleAttachmentUpload(isImage) ==
    /\ InEditor /\ activeSection = "attachments" /\ settings.hasAttachment
    /\ edits < MaxEdits
    /\ attachmentReads' = Append(attachmentReads,
           [isImage |-> isImage, attachmentContent |-> settings.attachmentContent])
    /\ lastSync' = NoSync
    /\ edits' = edits + 1
    /\ UNCHANGED <<view, settings, docState, activeSection, editor, syncPending,
                   reading, awaiting, passes, rendered,
                   download,
                   panel, generating, alerts, prompts>>

\* reader.onload   EditorPanel.tsx:106-114
AttachmentImage(read) == read.attachmentContent \o <<ImgWritten>>

\* alert(...)   EditorPanel.tsx:112
AttachmentAlert == "Only Images (JPG/PNG) are supported for manual inline insertion."

AttachmentReaderOnload ==
    /\ Idle /\ attachmentReads # <<>>
    /\ LET read == Head(attachmentReads) IN
       /\ Commit(editor, view, activeSection,
                 IF read.isImage
                 THEN [settings EXCEPT !.attachmentContent = AttachmentImage(read)]
                 ELSE settings)
       /\ alerts' = IF read.isImage THEN alerts ELSE Append(alerts, AttachmentAlert)
    /\ attachmentReads' = Tail(attachmentReads)
    /\ lastSync' = NoSync
    /\ UNCHANGED <<docState, reading, awaiting, edits, passes, rendered,
                   download, generating, prompts>>

\* the logo prompt input   EditorPanel.tsx:338-343
LogoShown == InEditor /\ activeSection = "header" /\ settings.showKop

setLogoPrompt(text) ==
    /\ LogoShown /\ text # panel.logoPrompt
    /\ panel' = [panel EXCEPT !.logoPrompt = text]
    /\ lastSync' = NoSync
    /\ UNCHANGED <<view, settings, docState, activeSection, editor, syncPending,
                   reading, awaiting, attachmentReads, edits, passes, rendered,
                   download, generating, alerts, prompts>>

\* handleGenerateLogo up to the await   EditorPanel.tsx:77-81; the button is
\* disabled while isGeneratingLogo or without a prompt (EditorPanel.tsx:347).
\* panel.calls is the number of this panel's own calls in flight.
handleGenerateLogo ==
    /\ LogoShown /\ edits < MaxEdits
    /\ ~panel.isGeneratingLogo /\ panel.logoPrompt # <<>>
    /\ panel' = [panel EXCEPT !.isGeneratingLogo = TRUE, !.calls = @ + 1]
    /\ generating' = generating + 1
    /\ lastSync' = NoSync
    /\ edits' = edits + 1
    /\ UNCHANGED <<view, settings, docState, activeSection, editor, syncPending,
                   reading, awaiting, attachmentReads, passes, rendered,
                   download, alerts, prompts>>

\* the call that completes was made by the mounted panel (own) or by a panel
\* that has been discarded since; setIsGeneratingLogo of a discarded panel
\* changes nothing
Completes(own) ==
    /\ generating > 0
    /\ IF own THEN panel.calls > 0 ELSE generating > panel.calls

\* a completion that leaves the busy flag set
FinallyStuck(own) == IF own THEN [panel EXCEPT !.calls = @ - 1] ELSE panel

\* finally { setIsGeneratingLogo(false) }   EditorPanel.tsx:85-87
Finally(own) ==
    IF own THEN [panel EXCEPT !.isGeneratingLogo = FALSE, !.calls = @ - 1] ELSE panel

\* generateLogo resolves: updateSetting('logoUrl', b64), finally
\* EditorPanel.tsx:81-82, 85-87
LogoGenerated == "data:image/png;base64"

LogoSucceeds(own) ==
    /\ Idle /\ Completes(own)
    /\ CommitPanel(editor, view, activeSection,
                   [settings EXCEPT !.logoUrl = LogoGenerated], Finally(own))
    /\ generating' = generating - 1
    /\ lastSync' = NoSync
    /\ UNCHANGED <<docState, reading, awaiting, attachmentReads, edits, passes,
                   rendered, download, alerts, prompts>>

\* alert(...)   EditorPanel.tsx:84
LogoAlert == "Failed to generate logo. Try a different prompt."

\* generateLogo rejects: catch, finally   EditorPanel.tsx:83-87
LogoFails(own) ==
    /\ Idle /\ Completes(own)
    /\ alerts' = Append(alerts, LogoAlert)
    /\ panel' = PanelRendered(view, Finally(own))
    /\ generating' = generating - 1
    /\ lastSync' = NoSync
    /\ UNCHANGED <<view, settings, docState, activeSection, editor, syncPending,
                   reading, awaiting, attachmentReads, edits, passes, rendered,
                   download, prompts>>

(***************************************************************************)
(* App                                                                     *)
(***************************************************************************)
\* handleManualCreate   part_008:216-219
handleManualCreate ==
    /\ Idle /\ view = "UPLOAD"
    /\ Commit(editor, "EDITOR", "content", DEFAULT_SETTINGS)
    /\ lastSync' = NoSync
    /\ UNCHANGED <<docState, reading, awaiting, attachmentReads, edits, passes, rendered,
                   download,
                   generating, alerts, prompts>>

\* handleBackToUpload   part_008:221-226, when the user confirms
handleBackToUpload ==
    /\ InEditor
    /\ Commit(editor, "UPLOAD", activeSection, settings)
    /\ docState' = [docState EXCEPT !.originalImage = "null", !.analysisError = FALSE]
    /\ lastSync' = NoSync
    /\ UNCHANGED <<reading, awaiting, attachmentReads, edits, passes, rendered,
                   download,
                   generating, alerts, prompts>>

\* the Edit and Preview buttons shown outside the upload view   part_008:446-451
setView(tab) ==
    /\ Idle /\ view # "UPLOAD"
    /\ tab \in {"EDITOR", "PREVIEW"} /\ tab # view
    /\ Commit(editor, tab, activeSection, settings)
    /\ lastSync' = NoSync
    /\ UNCHANGED <<docState, reading, awaiting, attachmentReads, edits, passes, rendered,
                   download,
                   generating, alerts, prompts>>

\* handleFileUpload   part_008:228-245, 289; the input is disabled while
\* docState.isAnalyzing (part_008:467)
FileKinds == {"word", "other", "image", "pdf"}

\* every file is taken for reading
AcceptedAny(file) == TRUE

\* neither of the two early returns is taken   part_008:232-244
Accepted(file) == file \in {"image", "pdf"}

\* alert(...)   part_008:234, 242
WordAlert == "Microsoft Word (.docx) is NOT supported directly."
UnsupportedAlert == "Unsupported file type. Please upload PDF, JPG, or PNG."

handleFileUpload(file) ==
    /\ Idle /\ view = "UPLOAD" /\ ~docState.isAnalyzing
    /\ file \in FileKinds
    /\ edits < MaxEdits
    /\ IF Accepted(file)
       THEN /\ reading' = Append(reading, file)
            /\ alerts' = alerts
       ELSE /\ reading' = reading
            /\ alerts' = Append(alerts, IF file = "word" THEN WordAlert
                                        ELSE UnsupportedAlert)
    /\ lastSync' = NoSync
    /\ edits' = edits + 1
    /\ UNCHANGED <<view, settings, docState, activeSection, editor, syncPending,
                   awaiting, attachmentReads, passes, rendered,
                   download, panel, generating, prompts>>

\* reader.onload up to the await   part_008:247-253
ReaderOnload ==
    /\ Idle /\ reading # <<>>
    /\ docState' = [docState EXCEPT
                      !.originalImage = IF Head(reading) = "image" THEN "data" ELSE "null",
                      !.isAnalyzing = TRUE, !.analysisError = FALSE]
    /\ reading' = Tail(reading)
    /\ awaiting' = awaiting + 1
    /\ lastSync' = NoSync
    /\ UNCHANGED <<view, settings, activeSection, editor, syncPending,
                   attachmentReads, edits, passes, rendered,
                   download,
                   panel, generating, alerts, prompts>>

\* a variable of the analysis record (types.ts:88)
DetectedVariable(key) == [key |-> key, label |-> Label(key), defaultValue |-> <<"x">>]

\* the settings update of part_008:255-280
detectedHeader(analysis) ==
    IF analysis.institutionName # <<>> \/ analysis.institutionAddress # <<>>
    THEN <<"x">> \o analysis.institutionName \o analysis.institutionAddress
    ELSE <<>>

ApplyAnalysis(prev, analysis) ==
    [prev EXCEPT
       !.headerContent = IF detectedHeader(analysis) # <<>>
                         THEN detectedHeader(analysis) ELSE prev.headerContent,
       !.rawHtmlContent = analysis.htmlContent,
       !.hasAttachment = analysis.attachmentContent # <<>>,
       !.attachmentContent = IF analysis.attachmentContent # <<>>
                             THEN analysis.attachmentContent ELSE prev.attachmentContent,
       !.variables = [i \in 1..Len(analysis.detectedVariables) |->
                        [id |-> <<"var-", i - 1>>,
                         key |-> analysis.detectedVariables[i].key,
                         label |-> analysis.detectedVariables[i].label,
                         defaultValue |-> analysis.detectedVariables[i].defaultValue]],
       !.signatures = IF analysis.signatureName # <<>>
                      THEN <<[id |-> "sig-ai", name |-> "signatureName",
                              title |-> "Pejabat", type |-> "wet",
                              label |-> "Hormat Kami,", align |-> "right"]>>
                      ELSE prev.signatures]

\* the continuation after the await   part_008:253-287
AnalysisSucceeds(analysis) ==
    /\ Idle /\ awaiting > 0
    /\ Commit(editor, "EDITOR", activeSection, ApplyAnalysis(settings, analysis))
    /\ docState' = [docState EXCEPT !.isAnalyzing = FALSE]
    /\ awaiting' = awaiting - 1
    /\ lastSync' = NoSync
    /\ UNCHANGED <<reading, attachmentReads, edits, passes, rendered,
                   download,
                   generating, alerts, prompts>>

\* the message kept in docState.analysisError (TRUE there)   part_008:284
AnalysisErrorText == "AI Analysis failed. Please try 'Manual Creation' or a different file."

\* the texts of the upload card   part_008:456-488
UploadCard(d) ==
    {"BladeRunner", "AI-Powered Laravel Blade Template Generator",
     "Supported Formats: PDF, JPG, PNG.",
     IF d.isAnalyzing THEN "Analyzing Document with AI..."
     ELSE "Click to Upload PDF or Image",
     "OR", "Manual Creation",
     "Start from scratch with a blank canvas. No AI analysis."}

\* what the render shows of docState: the upload card reads isAnalyzing,
\* EditorPanel and TemplatePreview are given settings only   part_008:444-506
ShownOfDocState(v, d) == IF v = "UPLOAD" THEN UploadCard(d) ELSE {}

AnalysisFails ==
    /\ Idle /\ awaiting > 0
    /\ docState' = [docState EXCEPT !.analysisError = TRUE, !.isAnalyzing = FALSE]
    /\ awaiting' = awaiting - 1
    /\ lastSync' = NoSync
    /\ UNCHANGED <<view, settings, activeSection, editor, syncPending, reading,
                   attachmentReads, edits, passes, rendered,
                   download,
                   panel, generating, alerts, prompts>>

(***************************************************************************)
(* The export (App.handleDownloadBlade)                                    *)
(*                                                                         *)
(* The downloaded file is the sequence of its elements in document order:  *)
(* Blade directives and the blocks between them.                           *)
(***************************************************************************)
\* the test for the first entry in place of the last
isFirst(idx, totalSigs) == idx = 1

\* const isLast = idx === totalSigs - 1   part_008:305
isLast(idx, totalSigs) == idx = totalSigs

\* containerAlignStyle   part_008:296-302
containerAlignStyle(s) ==
    IF Len(s.signatures) = 1
    THEN IF s.signatures[1].align = "absent" THEN "text-align: right"
         ELSE IF s.signatures[1].align = "left" THEN "text-align: left"
         ELSE IF s.signatures[1].align = "center" THEN "text-align: center"
         ELSE "text-align: right"
    ELSE "overflow: hidden"

\* the block style without the branch for the last of an odd sequence
blockStyleFloat(idx, totalSigs) ==
    IF totalSigs = 1 THEN "display: inline-block; text-align: center"
    ELSE "width: 50%; float: left; text-align: center"

\* blockStyle   part_008:313-320
blockStyle(idx, totalSigs) ==
    IF totalSigs = 1 THEN "display: inline-block; text-align: center"
    ELSE IF totalSigs % 2 # 0 /\ isLast(idx, totalSigs)
         THEN "width: 100%; clear: both; float: none; text-align: center"
         ELSE "width: 50%; float: left; text-align: center"

\* {{ $qr_code_${idx} ?? '' }}   part_008:326
QrExpression(idx) ==
    <<"{", "{", " ", "$", "qr", "_", "code", "_", Digit(idx), " ", "?", "?", " ",
      "''", " ", "}", "}">>

\* one sig-block   part_008:322-330
SigBlock(s, idx) ==
    LET sig == s.signatures[idx]
        totalSigs == Len(s.signatures) IN
    [style |-> blockStyle(idx, totalSigs),
     label |-> sig.label,
     dateLine |-> IF isLast(idx, totalSigs)
                  THEN <<"Bandung", ",", " ">> \o Token(tanggal)
                  ELSE <<>>,
     mark |-> IF sig.type = "wet" THEN <<>> ELSE QrExpression(idx),
     name |-> sig.name,
     title |-> sig.title]

\* signaturesHtml   part_008:304-331
signaturesHtml(s) == [i \in 1..Len(s.signatures) |-> SigBlock(s, i)]

\* the dividers in reverse array order
headerLinesHtmlReversed(s) ==
    [i \in 1..Len(s.headerLines) |->
        LineStyle(s.headerLines[Len(s.headerLines) + 1 - i])]

\* headerLinesHtml   part_008:334-342
headerLinesHtml(s) == [i \in 1..Len(s.headerLines) |-> LineStyle(s.headerLines[i])]

\* @if(true) / @if(false), @endif
BladeIf(flag) == [tag |-> "@if", cond |-> flag]
BladeEndif == [tag |-> "@endif"]

\* <title>{{ $title ?? 'Document' }}</title>   part_008:348
TitleExpression ==
    <<"{", "{", " ", "$", "title", " ", "?", "?", " ", "'Document'", " ", "}", "}">>

\* a header block that carries the substituted header fragment
ExportHeaderSubstituted(s) ==
    <<[tag |-> "header", logo |-> s.logoUrl,
       html |-> replaceVariables(s.headerContent, s.variables)],
      [tag |-> "header-lines",
       lines |-> [i \in 1..Len(s.headerLines) |-> LineStyle(s.headerLines[i])]]>>

\* the header-container and header-lines blocks   part_008:397-403, 416-422
ExportHeader(s) ==
    <<[tag |-> "header", logo |-> s.logoUrl, html |-> s.headerContent],
      [tag |-> "header-lines", lines |-> headerLinesHtml(s)]>>

\* bladeContent   part_008:344-432
bladeContent(s) ==
    <<[tag |-> "title", html |-> TitleExpression]>>
    \o <<BladeIf(s.showFooter), [tag |-> "footer", html |-> s.footerContent], BladeEndif>>
    \o <<BladeIf(s.showKop)>> \o ExportHeader(s) \o <<BladeEndif>>
    \o <<[tag |-> "content-body", html |-> s.rawHtmlContent]>>
    \o <<BladeIf(s.showSignature),
         [tag |-> "signatures", style |-> containerAlignStyle(s),
          entries |-> signaturesHtml(s)],
         BladeEndif>>
    \o <<BladeIf(s.hasAttachment), [tag |-> "page-break"]>>
    \o <<BladeIf(s.attachmentShowKop)>> \o ExportHeader(s)
    \o <<[tag |-> "br"], BladeEndif>>
    \o <<[tag |-> "attachment", html |-> s.attachmentContent], BladeEndif>>

\* handleDownloadBlade: the file handed to the browser   part_008:292-441
handleDownloadBlade ==
    /\ Idle
    /\ view # "UPLOAD"
    /\ download' = bladeContent(settings)
    /\ UNCHANGED <<view, settings, docState, activeSection, editor, syncPending,
                   reading, awaiting, attachmentReads, lastSync, edits, rendered,
                   passes,
                   panel, generating, alerts, prompts>>

(***************************************************************************)
(* The editing session                                                     *)
(***************************************************************************)
\* no file has been downloaded
NoDownload == <<>>

NotRendered == [shown |-> FALSE, processedContent |-> <<>>, processedHeader |-> <<>>,
                processedAttachment |-> <<>>, processedFooter |-> <<>>,
                pages |-> <<>>]

Init ==
    /\ view = "UPLOAD"
    /\ settings = DEFAULT_SETTINGS
    /\ docState = [originalImage |-> "null", isAnalyzing |-> FALSE,
                   isGeneratingLogo |-> FALSE, analysisError |-> FALSE]
    /\ activeSection = "content"
    /\ editor = NoEditor
    /\ syncPending = FALSE
    /\ reading = <<>>
    /\ awaiting = 0
    /\ attachmentReads = <<>>
    /\ lastSync = NoSync
    /\ edits = 0
    /\ passes = <<>>
    /\ rendered = NotRendered
    /\ download = NoDownload
    /\ panel = NoPanel
    /\ generating = 0
    /\ alerts = <<>>
    /\ prompts = <<>>

\* the answers of the analysis service tried in a session: a full record, a
\* record with every optional part absent and an empty body, and a record
\* that lists one variable twice
FullAnalysis ==
    [institutionName |-> <<"x">>, institutionAddress |-> <<"x">>,
     htmlContent |-> Token(kota), attachmentContent |-> <<"x">>,
     detectedVariables |-> <<DetectedVariable(kota)>>, signatureName |-> <<"x">>]

BareAnalysis ==
    [institutionName |-> <<>>, institutionAddress |-> <<>>,
     htmlContent |-> <<>>, attachmentContent |-> <<>>,
     detectedVariables |-> <<>>, signatureName |-> <<>>]

RepeatingAnalysis ==
    [BareAnalysis EXCEPT !.htmlContent = Token(kota),
                         !.detectedVariables = <<DetectedVariable(kota),
                                                 DetectedVariable(kota)>>]

SessionAnalyses == {FullAnalysis, BareAnalysis, RepeatingAnalysis}

\* the names answered to the New Variable prompt in a session
SessionNames == {<<>>, kota, nama_penerima, <<"!", "kota">>}

\* the tabs and checkboxes used in a session
SessionSections == Sections \ {"layout"}

SessionFlags == {"hasAttachment", "showFooter"}

\* the values typed into a variable's label or default value
SessionValues == {<<>>, <<"y">>}

Next ==
    \/ RunSync
    \/ FocusSurface
    \/ BlurSurface
    \/ \E html \in Keystrokes(editor.html) : RawInput(html)
    \/ \E sel \in Selections : applyFontSize(sel, Len(editor.html))
    \/ \E key \in Keys(settings.variables), pos \in CaretPositions(editor.html),
          keepsFocus \in BOOLEAN : InsertFromMenu(key, pos, keepsFocus)
    \/ \E name \in SessionNames, pos \in CaretPositions(editor.html),
          keepsFocus \in BOOLEAN : promptNewVariable(name, pos, keepsFocus)
    \/ \E tab \in SessionSections : setActiveSection(tab)
    \/ \E flag \in SessionFlags : updateSettingFlag(flag)
    \/ \E i \in 1..Len(settings.variables), field \in VariableFields,
          value \in SessionValues : updateVariable(i, field, value)
    \/ handleAttachmentUpload(TRUE)
    \/ AttachmentReaderOnload
    \/ handleManualCreate
    \/ handleBackToUpload
    \/ \E tab \in {"EDITOR", "PREVIEW"} : setView(tab)
    \/ handleFileUpload("pdf")
    \/ ReaderOnload
    \/ \E analysis \in SessionAnalyses : AnalysisSucceeds(analysis)
    \/ AnalysisFails

Spec == Init /\ [][Next]_vars

(***************************************************************************)
(* The session from the moment a file has been accepted                    *)
(***************************************************************************)
\* handleFileUpload has accepted a file and reader.readAsDataURL(file) is
\* running   part_008:228-289
InitUpload ==
    /\ view = "UPLOAD"
    /\ settings = DEFAULT_SETTINGS
    /\ docState = [originalImage |-> "null", isAnalyzing |-> FALSE,
                   isGeneratingLogo |-> FALSE, analysisError |-> FALSE]
    /\ activeSection = "content"
    /\ editor = NoEditor
    /\ syncPending = FALSE
    /\ \E file \in {f \in FileKinds : Accepted(f)} : reading = <<file>>
    /\ awaiting = 0
    /\ attachmentReads = <<>>
    /\ lastSync = NoSync
    /\ edits = 0
    /\ passes = <<>>
    /\ rendered = NotRendered
    /\ download = NoDownload
    /\ panel = NoPanel
    /\ generating = 0
    /\ alerts = <<>>
    /\ prompts = <<>>

SpecUpload == InitUpload /\ [][Next]_vars

(***************************************************************************)
(* The session with its files and services: every kind of file offered to *)
(* the two file inputs, the analysis service and the logo service         *)
(***************************************************************************)
\* the prompts typed for the logo
LogoPrompts == {<<>>, <<"x">>}

NextService ==
    \/ RunSync
    \/ \E tab \in {"header", "content", "attachments"} : setActiveSection(tab)
    \/ \E flag \in {"hasAttachment"} : updateSettingFlag(flag)
    \/ \E isImage \in BOOLEAN : handleAttachmentUpload(isImage)
    \/ AttachmentReaderOnload
    \/ \E text \in LogoPrompts : setLogoPrompt(text)
    \/ handleGenerateLogo
    \/ \E own \in BOOLEAN : LogoSucceeds(own)
    \/ \E own \in BOOLEAN : LogoFails(own)
    \/ handleManualCreate
    \/ handleBackToUpload
    \/ \E tab \in {"EDITOR", "PREVIEW"} : setView(tab)
    \/ \E file \in FileKinds : handleFileUpload(file)
    \/ ReaderOnload
    \/ \E analysis \in {FullAnalysis, BareAnalysis} : AnalysisSucceeds(analysis)
    \/ AnalysisFails

SpecService == Init /\ [][NextService]_vars

(***************************************************************************)
(* The toolbar of a mounted editor                                         *)
(***************************************************************************)
\* the fragments the session holds when the toolbar is used
ToolbarContents == {<<>>, <<"x">>, <<"x">> \o Token(kota)}

\* the answers given to the two prompts of insertTable
TableAnswers ==
    {Cancel, <<>>, <<"a">>, <<"0">>, <<"-", "1">>, <<"1">>, <<"2">>,
     <<" ", "2", "x">>, <<"3">>}

\* the names answered to the New Variable prompt
ToolbarNames == {<<>>, kota, <<"!">>, <<"!", "kota">>, <<" ">>}

\* a session whose editor is mounted and synchronised: the body editor of
\* the content tab or the attachment editor of the attachments tab
\* EditorPanel.tsx:415-431, 511-560
InitToolbar ==
    /\ view = "EDITOR"
    /\ \E r \in {"content", "attachments"}, m \in ToolbarContents, f \in BOOLEAN :
          /\ settings = [DEFAULT_SETTINGS EXCEPT ![Field(r)] = m,
                                                 !.hasAttachment = (r = "attachments")]
          /\ activeSection = r
          /\ editor = [region |-> r, html |-> m, focused |-> f]
    /\ docState = [originalImage |-> "null", isAnalyzing |-> FALSE,
                   isGeneratingLogo |-> FALSE, analysisError |-> FALSE]
    /\ syncPending = FALSE
    /\ reading = <<>>
    /\ awaiting = 0
    /\ attachmentReads = <<>>
    /\ lastSync = NoSync
    /\ edits = 0
    /\ passes = <<>>
    /\ rendered = NotRendered
    /\ download = NoDownload
    /\ panel = NoPanel
    /\ generating = 0
    /\ alerts = <<>>
    /\ prompts = <<>>

NextToolbar ==
    \/ RunSync
    \/ FocusSurface
    \/ BlurSurface
    \/ \E html \in Keystrokes(editor.html) : RawInput(html)
    \/ \E command \in Commands, applies \in BOOLEAN, keepsFocus \in BOOLEAN :
          execCmd(command, applies, keepsFocus)
    \/ \E applies \in BOOLEAN, keepsFocus \in BOOLEAN :
          handleFontFamily(applies, keepsFocus)
    \/ \E pos \in CaretPositions(editor.html), keepsFocus \in BOOLEAN :
          insertHr(pos, keepsFocus)
    \/ \E rowsInput \in TableAnswers, colsInput \in TableAnswers,
          pos \in CaretPositions(editor.html), keepsFocus \in BOOLEAN :
          insertTable(rowsInput, colsInput, pos, keepsFocus)
    \/ \E sel \in Selections : applyFontSize(sel, Len(editor.html))
    \/ \E key \in Keys(settings.variables), pos \in CaretPositions(editor.html),
          keepsFocus \in BOOLEAN : InsertFromMenu(key, pos, keepsFocus)
    \/ \E name \in ToolbarNames, pos \in CaretPositions(editor.html),
          keepsFocus \in BOOLEAN : promptNewVariable(name, pos, keepsFocus)

SpecToolbar == InitToolbar /\ [][NextToolbar]_vars

(***************************************************************************)
(* The attachment editor while the file of handleAttachmentUpload is read  *)
(***************************************************************************)
\* handleAttachmentUpload has started the reader on the attachments tab
\* EditorPanel.tsx:101-120, 511-560
InitAttachment ==
    /\ view = "EDITOR"
    /\ \E m \in ToolbarContents, f \in BOOLEAN, isImage \in BOOLEAN :
          /\ settings = [DEFAULT_SETTINGS EXCEPT !.attachmentContent = m,
                                                 !.hasAttachment = TRUE]
          /\ editor = [region |-> "attachments", html |-> m, focused |-> f]
          /\ attachmentReads = <<[isImage |-> isImage, attachmentContent |-> m]>>
    /\ activeSection = "attachments"
    /\ docState = [originalImage |-> "null", isAnalyzing |-> FALSE,
                   isGeneratingLogo |-> FALSE, analysisError |-> FALSE]
    /\ syncPending = FALSE
    /\ reading = <<>>
    /\ awaiting = 0
    /\ lastSync = NoSync
    /\ edits = 0
    /\ passes = <<>>
    /\ rendered = NotRendered
    /\ download = NoDownload
    /\ panel = NoPanel
    /\ generating = 0
    /\ alerts = <<>>
    /\ prompts = <<>>

NextAttachment ==
    \/ RunSync
    \/ FocusSurface
    \/ BlurSurface
    \/ \E html \in Keystrokes(editor.html) : RawInput(html)
    \/ \E pos \in CaretPositions(editor.html), keepsFocus \in BOOLEAN :
          insertHr(pos, keepsFocus)
    \/ \E key \in Keys(settings.variables), pos \in CaretPositions(editor.html),
          keepsFocus \in BOOLEAN : InsertFromMenu(key, pos, keepsFocus)
    \/ \E isImage \in BOOLEAN : handleAttachmentUpload(isImage)
    \/ AttachmentReaderOnload

SpecAttachment == InitAttachment /\ [][NextAttachment]_vars

(***************************************************************************)
(* Table insertion for every pair of answers                               *)
(***************************************************************************)
\* a session as in InitToolbar whose user is about to answer the two
\* prompts of insertTable with prompts[1] and prompts[2]; the second prompt
\* is never shown when the first is cancelled
InitTable ==
    /\ view = "EDITOR"
    /\ \E r \in {"content", "attachments"}, m \in ToolbarContents, f \in BOOLEAN :
          /\ settings = [DEFAULT_SETTINGS EXCEPT ![Field(r)] = m,
                                                 !.hasAttachment = (r = "attachments")]
          /\ activeSection = r
          /\ editor = [region |-> r, html |-> m, focused |-> f]
    /\ docState = [originalImage |-> "null", isAnalyzing |-> FALSE,
                   isGeneratingLogo |-> FALSE, analysisError |-> FALSE]
    /\ syncPending = FALSE
    /\ reading = <<>>
    /\ awaiting = 0
    /\ attachmentReads = <<>>
    /\ lastSync = NoSync
    /\ edits = 0
    /\ passes = <<>>
    /\ rendered = NotRendered
    /\ download = NoDownload
    /\ panel = NoPanel
    /\ generating = 0
    /\ alerts = <<>>
    /\ \E rowsInput \in TableAnswers, colsInput \in TableAnswers :
          /\ rowsInput = Cancel => colsInput = Cancel
          /\ prompts = <<rowsInput, colsInput>>

NextTable ==
    \/ RunSync
    \/ FocusSurface
    \/ BlurSurface
    \/ \E pos \in CaretPositions(editor.html), keepsFocus \in BOOLEAN :
          insertTable(prompts[1], prompts[2], pos, keepsFocus)

SpecTable == InitTable /\ [][NextTable]_vars

(***************************************************************************)
(* The preview of arbitrary settings                                       *)
(***************************************************************************)
\* the pieces a fragment is written from: text, tokens with regular and
\* irregular whitespace for two registered keys, and a token of a key that
\* extends a registered one
Pieces ==
    {<<"x">>, TokenWs(kota, 1, 1), TokenWs(kota, 0, 2), TokenWs(nama, 1, 1),
     TokenWs(nama_penerima, 1, 1)}

Markups == {Flatten(ps) : ps \in SeqsUpTo(Pieces, MaxPieces)}

\* the default values a variable may carry
DefaultValues == {<<>>, <<"x">>, Token(kota), <<"$", "&">>, <<"$", "$">>}

SubKeys == {kota, nama}

\* registries of at most MaxVars variables with distinct keys
Registries ==
    {reg \in SeqsUpTo([id : {<<"v", 0>>}, key : SubKeys, label : {<<"x">>},
                       defaultValue : DefaultValues], MaxVars) :
        \A i, j \in 1..Len(reg) : i # j => reg[i].key # reg[j].key}

\* TemplatePreview renders the settings (part_001:100-114)
TemplatePreview ==
    /\ ~rendered.shown
    /\ rendered' = Processed(settings)
    /\ UNCHANGED <<view, settings, docState, activeSection, editor, syncPending,
                   reading, awaiting, attachmentReads, lastSync, edits, passes,
                   download,
                   panel, generating, alerts, prompts>>

\* replaceVariables applied to its own result
Resubstitute ==
    /\ Len(passes) \in 1..2
    /\ passes' = Append(passes, replaceVariables(passes[Len(passes)], settings.variables))
    /\ UNCHANGED <<view, settings, docState, activeSection, editor, syncPending,
                   reading, awaiting, attachmentReads, lastSync, edits, rendered,
                   download,
                   panel, generating, alerts, prompts>>

InitSub ==
    /\ view = "PREVIEW"
    /\ \E reg \in Registries, r \in Regions, m \in Markups :
          /\ settings = [DEFAULT_SETTINGS EXCEPT !.variables = reg, ![Field(r)] = m]
          /\ passes = <<m>>
    /\ docState = [originalImage |-> "null", isAnalyzing |-> FALSE,
                   isGeneratingLogo |-> FALSE, analysisError |-> FALSE]
    /\ activeSection = "content"
    /\ editor = NoEditor
    /\ syncPending = FALSE
    /\ reading = <<>>
    /\ awaiting = 0
    /\ attachmentReads = <<>>
    /\ lastSync = NoSync
    /\ edits = 0
    /\ rendered = NotRendered
    /\ download = NoDownload
    /\ panel = NoPanel
    /\ generating = 0
    /\ alerts = <<>>
    /\ prompts = <<>>

NextSub == TemplatePreview \/ Resubstitute

SpecSub == InitSub /\ [][NextSub]_vars

(***************************************************************************)
(* The export of arbitrary fragments                                       *)
(***************************************************************************)
\* registries whose variables have no default value: the export never reads
\* the default
ExportRegistries ==
    {reg \in Registries : \A i \in 1..Len(reg) : reg[i].defaultValue = <<>>}

InitExport ==
    /\ view = "EDITOR"
    /\ \E reg \in ExportRegistries, r \in Regions, m \in Markups,
          sigs \in {<<>>, DEFAULT_SETTINGS.signatures,
                    <<[DEFAULT_SETTINGS.signatures[1] EXCEPT !.type = "qr"]>>} :
          settings = [DEFAULT_SETTINGS EXCEPT !.variables = reg, ![Field(r)] = m,
                                              !.signatures = sigs]
    /\ passes = <<>>
    /\ docState = [originalImage |-> "null", isAnalyzing |-> FALSE,
                   isGeneratingLogo |-> FALSE, analysisError |-> FALSE]
    /\ activeSection = "content"
    /\ editor = NoEditor
    /\ syncPending = FALSE
    /\ reading = <<>>
    /\ awaiting = 0
    /\ attachmentReads = <<>>
    /\ lastSync = NoSync
    /\ edits = 0
    /\ rendered = NotRendered
    /\ download = NoDownload
    /\ panel = NoPanel
    /\ generating = 0
    /\ alerts = <<>>
    /\ prompts = <<>>

NextExport == handleDownloadBlade

SpecExport == InitExport /\ [][NextExport]_vars

(***************************************************************************)
(* Page geometry (EditorPanel: LAYOUT SETTINGS)                            *)
(*                                                                         *)
(* A length is kept as the count of the last decimal place that            *)
(* convertValue keeps in its unit: 1/100 mm, 1/100 cm, 1/1000 in.  The     *)
(* local mm of convertValue is kept as a count of 1/10000 mm, in which     *)
(* all three places are whole numbers.                                     *)
(***************************************************************************)
Units == {"mm", "cm", "in"}

GeometryFields ==
    {"pageWidth", "pageHeight", "marginTop", "marginBottom", "marginLeft", "marginRight"}

\* let mm = val; if (from === 'cm') mm = val * 10; if (from === 'in') mm = val * 25.4
\* EditorPanel.tsx:32-34
ToMmRough(val, from) ==
    CASE from = "mm" -> val * 100
      [] from = "cm" -> val * 1000
      [] from = "in" -> val * 250

ToMm(val, from) ==
    CASE from = "mm" -> val * 100
      [] from = "cm" -> val * 1000
      [] from = "in" -> val * 254

\* the last place of the target unit: mm.toFixed(2), (mm / 10).toFixed(2),
\* (mm / 25.4).toFixed(3)   EditorPanel.tsx:36-38
LastPlace(to) ==
    CASE to = "mm" -> 100
      [] to = "cm" -> 1000
      [] to = "in" -> 254

\* toFixed that cuts the further places off
toFixedTruncated(m, place) == {m \div place}

\* parseFloat(x.toFixed(k)): the nearest count of the place.  toFixed rounds
\* the binary value of x, so for an x that is a decimal tie the direction
\* depends on how the division or product was rounded in binary: either
\* neighbour can be the result
toFixed(m, place) ==
    IF 2 * (m % place) < place THEN {m \div place}
    ELSE IF 2 * (m % place) > place THEN {m \div place + 1}
    ELSE {m \div place, m \div place + 1}

\* convertValue   EditorPanel.tsx:31-40: the values it can return
convertValue(val, from, to) == toFixed(ToMm(val, from), LastPlace(to))

\* the lower or the upper of the values of a set of one or two numbers
Pick(S, up) ==
    IF up THEN CHOOSE x \in S : \A y \in S : y <= x
    ELSE CHOOSE x \in S : \A y \in S : x <= y

\* the unit and the six lengths of the settings
Geometry(s) ==
    [unit |-> s.unit, pageWidth |-> s.pageWidth, pageHeight |-> s.pageHeight,
     marginTop |-> s.marginTop, marginBottom |-> s.marginBottom,
     marginLeft |-> s.marginLeft, marginRight |-> s.marginRight]

\* convertValue is a function: a length that was converted before, or that
\* is converted for two fields at once, has one result
SameResult(old, new) ==
    /\ \A f, g \in GeometryFields : old[f] = old[g] => new[f] = new[g]
    /\ \A i \in 1..(Len(passes) - 1) : \A f, g \in GeometryFields :
          (/\ passes[i].unit = old.unit
           /\ passes[i + 1].unit = new.unit
           /\ passes[i][f] = old[g]) => new[g] = passes[i + 1][f]

\* the layout tab   EditorPanel.tsx:208
LayoutShown == InEditor /\ activeSection = "layout"

\* the fields for which convertValue can return two values
TieFields(s, newUnit) ==
    {f \in GeometryFields : Cardinality(convertValue(s[f], s.unit, newUnit)) = 2}

\* the settings after handleUnitChange(newUnit), ups holding the fields
\* that get the upper of two possible results
UnitChanged(s, newUnit, ups) ==
    [s EXCEPT !.unit = newUnit,
              !.pageWidth = Pick(convertValue(s.pageWidth, s.unit, newUnit), "pageWidth" \in ups),
              !.pageHeight = Pick(convertValue(s.pageHeight, s.unit, newUnit), "pageHeight" \in ups),
              !.marginTop = Pick(convertValue(s.marginTop, s.unit, newUnit), "marginTop" \in ups),
              !.marginBottom = Pick(convertValue(s.marginBottom, s.unit, newUnit), "marginBottom" \in ups),
              !.marginLeft = Pick(convertValue(s.marginLeft, s.unit, newUnit), "marginLeft" \in ups),
              !.marginRight = Pick(convertValue(s.marginRight, s.unit, newUnit), "marginRight" \in ups)]

\* handleUnitChange   EditorPanel.tsx:42-56; passes keeps the geometry
\* after every change since the page size was last set
handleUnitChange(newUnit) ==
    /\ LayoutShown /\ edits < MaxSwitches
    /\ IF settings.unit = newUnit
       THEN UNCHANGED vars
       ELSE \E ups \in SUBSET TieFields(settings, newUnit) :
              /\ SameResult(Geometry(settings), Geometry(UnitChanged(settings, newUnit, ups)))
              /\ Commit(editor, view, activeSection, UnitChanged(settings, newUnit, ups))
              /\ passes' = Append(passes, Geometry(UnitChanged(settings, newUnit, ups)))
              /\ lastSync' = NoSync
              /\ edits' = edits + 1
              /\ UNCHANGED <<docState, reading, awaiting, attachmentReads, rendered,
                             download,
                   generating, alerts, prompts>>

\* PAGE_SIZES   EditorPanel.tsx:13-19, in 1/100 mm
PAGE_SIZES ==
    [A4 |-> [width |-> 21000, height |-> 29700],
     Letter |-> [width |-> 21590, height |-> 27940],
     Legal |-> [width |-> 21590, height |-> 35560],
     F4 |-> [width |-> 21500, height |-> 33000]]

Presets == {"A4", "Letter", "Legal", "F4", "Custom"}

\* handlePageSizeChange   EditorPanel.tsx:58-75; the select fires it for a
\* preset other than the one shown
handlePageSizeChange(preset) ==
    /\ LayoutShown /\ edits < MaxSwitches
    /\ preset # settings.pageSize
    /\ \E up \in BOOLEAN :
         LET changed ==
               IF preset = "Custom" THEN [settings EXCEPT !.pageSize = "Custom"]
               ELSE [settings EXCEPT
                        !.pageSize = preset,
                        !.pageWidth = Pick(convertValue(PAGE_SIZES[preset].width,
                                               "mm", settings.unit), up),
                        !.pageHeight = Pick(convertValue(PAGE_SIZES[preset].height,
                                                "mm", settings.unit), up)] IN
         /\ Commit(editor, view, activeSection, changed)
         /\ passes' = <<Geometry(changed)>>
    /\ lastSync' = NoSync
    /\ edits' = edits + 1
    /\ UNCHANGED <<docState, reading, awaiting, attachmentReads, rendered, download,
                   generating, alerts, prompts>>

\* the lengths of the start: every field a small length of its own, or the
\* built-in default
StartGeometries ==
    {[pageWidth |-> v, pageHeight |-> v + 1, marginTop |-> v + 2,
      marginBottom |-> v + 3, marginLeft |-> v + 4, marginRight |-> v + 5] :
        v \in 0..MaxGeom}
    \cup {[pageWidth |-> DEFAULT_SETTINGS.pageWidth,
            pageHeight |-> DEFAULT_SETTINGS.pageHeight,
            marginTop |-> DEFAULT_SETTINGS.marginTop,
            marginBottom |-> DEFAULT_SETTINGS.marginBottom,
            marginLeft |-> DEFAULT_SETTINGS.marginLeft,
            marginRight |-> DEFAULT_SETTINGS.marginRight]}

InitLayout ==
    /\ view = "EDITOR"
    /\ \E u \in Units, g \in StartGeometries :
          LET s == [DEFAULT_SETTINGS EXCEPT
                       !.unit = u, !.pageSize = "Custom",
                       !.pageWidth = g.pageWidth, !.pageHeight = g.pageHeight,
                       !.marginTop = g.marginTop, !.marginBottom = g.marginBottom,
                       !.marginLeft = g.marginLeft, !.marginRight = g.marginRight] IN
          /\ settings = s
          /\ passes = <<Geometry(s)>>
    /\ docState = [originalImage |-> "null", isAnalyzing |-> FALSE,
                   isGeneratingLogo |-> FALSE, analysisError |-> FALSE]
    /\ activeSection = "layout"
    /\ editor = NoEditor
    /\ syncPending = FALSE
    /\ reading = <<>>
    /\ awaiting = 0
    /\ attachmentReads = <<>>
    /\ lastSync = NoSync
    /\ edits = 0
    /\ rendered = NotRendered
    /\ download = NoDownload
    /\ panel = NoPanel
    /\ generating = 0
    /\ alerts = <<>>
    /\ prompts = <<>>

NextLayout ==
    \/ \E u \in Units : handleUnitChange(u)
    \/ \E preset \in Presets : handlePageSizeChange(preset)

SpecLayout == InitLayout /\ [][NextLayout]_vars

(***************************************************************************)
(* The header-line stack (EditorPanel: HEADER LINES MANAGEMENT)            *)
(***************************************************************************)
\* the header tab with the letterhead shown: the line controls are rendered
\* EditorPanel.tsx:320-327, 362-407
LinesShown == InEditor /\ activeSection = "header" /\ settings.showKop

\* the render that follows a change of the lines: the editor panel and the
\* preview beside it (part_008:490-502)
CommitLines(lines) ==
    /\ Commit(editor, view, activeSection, [settings EXCEPT !.headerLines = lines])
    /\ rendered' = Processed([settings EXCEPT !.headerLines = lines])
    /\ lastSync' = NoSync
    /\ edits' = edits + 1
    /\ UNCHANGED <<docState, reading, awaiting, attachmentReads, passes, download,
                   generating, alerts, prompts>>

\* newLine   EditorPanel.tsx:141-148; t is Date.now()
newLine(t) ==
    [id |-> <<"line", t>>, width |-> 3, style |-> "solid", color |-> "#000000",
     marginTop |-> 2, marginBottom |-> 2]

\* addHeaderLine   EditorPanel.tsx:140-150; the clock may not have advanced
\* since the handler before
addHeaderLine ==
    /\ LinesShown /\ edits < MaxLineEdits
    /\ \E t \in {Now - 1, Now} :
          CommitLines(Append(settings.headerLines, newLine(t)))

\* removeHeaderLine   EditorPanel.tsx:152-154
removeHeaderLine(id) ==
    /\ LinesShown /\ edits < MaxLineEdits
    /\ \E i \in 1..Len(settings.headerLines) : settings.headerLines[i].id = id
    /\ CommitLines(SelectSeq(settings.headerLines, LAMBDA l : l.id # id))

\* the values the line controls are set to   EditorPanel.tsx:376-399
LineUpdates == {<<"style", "double">>, <<"width", 5>>, <<"marginTop", 4>>}

\* updateHeaderLine   EditorPanel.tsx:156-159
updateHeaderLine(id, field, value) ==
    /\ LinesShown /\ edits < MaxLineEdits
    /\ \E i \in 1..Len(settings.headerLines) : settings.headerLines[i].id = id
    /\ CommitLines([i \in 1..Len(settings.headerLines) |->
                       IF settings.headerLines[i].id = id
                       THEN [settings.headerLines[i] EXCEPT ![field] = value]
                       ELSE settings.headerLines[i]])

\* the ids a line can have: the two default lines and the added ones
LineIds == {<<"l", 1>>, <<"l", 2>>} \cup {<<"line", t>> : t \in 0..MaxLineEdits}

InitLines ==
    /\ view = "EDITOR"
    /\ \E kop, attachment, repeat \in BOOLEAN :
          /\ settings = [DEFAULT_SETTINGS EXCEPT
                            !.showKop = kop, !.hasAttachment = attachment,
                            !.attachmentShowKop = repeat]
          /\ editor = IF kop
                      THEN [region |-> "header",
                            html |-> DomHtml(DEFAULT_SETTINGS.headerContent),
                            focused |-> FALSE]
                      ELSE NoEditor
          /\ rendered = Processed([DEFAULT_SETTINGS EXCEPT
                            !.showKop = kop, !.hasAttachment = attachment,
                            !.attachmentShowKop = repeat])
    /\ passes = <<>>
    /\ docState = [originalImage |-> "null", isAnalyzing |-> FALSE,
                   isGeneratingLogo |-> FALSE, analysisError |-> FALSE]
    /\ activeSection = "header"
    /\ syncPending = FALSE
    /\ reading = <<>>
    /\ awaiting = 0
    /\ attachmentReads = <<>>
    /\ lastSync = NoSync
    /\ edits = 0
    /\ download = NoDownload
    /\ panel = NoPanel
    /\ generating = 0
    /\ alerts = <<>>
    /\ prompts = <<>>

NextLines ==
    \/ addHeaderLine
    \/ \E id \in LineIds : removeHeaderLine(id)
    \/ \E id \in LineIds, u \in LineUpdates : updateHeaderLine(id, u[1], u[2])
    \/ handleDownloadBlade

SpecLines == InitLines /\ [][NextLines]_vars

(***************************************************************************)
(* The preview and the export of arbitrary document structures             *)
(***************************************************************************)
\* Signature.align, "absent" for a signature without the field; Signature.type
Aligns == {"left", "center", "right", "absent"}
SigTypes == {"wet", "qr"}

SigId(i) == CASE i = 1 -> "s1" [] i = 2 -> "s2" [] i = 3 -> "s3" [] i = 4 -> "s4"
                [] i = 5 -> "s5" [] OTHER -> "s6"
SigName(i) == CASE i = 1 -> "n1" [] i = 2 -> "n2" [] i = 3 -> "n3" [] i = 4 -> "n4"
                  [] i = 5 -> "n5" [] OTHER -> "n6"

\* the i-th signature of a sequence, as addSignature and updateSignature
\* leave it
SignatureEntry(i, align, type) ==
    [id |-> SigId(i), name |-> SigName(i), title |-> "Jabatan", type |-> type,
     label |-> IF i = 1 THEN "Hormat Kami," ELSE "Mengetahui,", align |-> align]

\* the signature sequences: none, one signature of any alignment, and
\* sequences of up to MaxSigs right-aligned signatures
SignatureSeqs ==
    {<<>>}
    \cup {<<SignatureEntry(1, a, t)>> : a \in Aligns, t \in SigTypes}
    \cup UNION {{[i \in 1..n |-> SignatureEntry(i, "right", ts[i])] :
                    ts \in [1..n -> SigTypes]} : n \in 2..MaxSigs}

\* what the signatureCity input holds: nothing, or a city
Cities == {<<>>, <<"Bandung">>, <<"Jakarta">>}

InitDoc ==
    /\ view = "EDITOR"
    /\ \E kop, footer, attachment, repeat, sign \in BOOLEAN,
          sigs \in SignatureSeqs, city \in Cities :
          settings = [DEFAULT_SETTINGS EXCEPT
                         !.showKop = kop, !.showFooter = footer,
                         !.hasAttachment = attachment, !.attachmentShowKop = repeat,
                         !.showSignature = sign, !.signatures = sigs,
                         !.signatureCity = city]
    /\ passes = <<>>
    /\ docState = [originalImage |-> "null", isAnalyzing |-> FALSE,
                   isGeneratingLogo |-> FALSE, analysisError |-> FALSE]
    /\ activeSection = "content"
    /\ editor = NoEditor
    /\ syncPending = FALSE
    /\ reading = <<>>
    /\ awaiting = 0
    /\ attachmentReads = <<>>
    /\ lastSync = NoSync
    /\ edits = 0
    /\ rendered = NotRendered
    /\ download = NoDownload
    /\ panel = NoPanel
    /\ generating = 0
    /\ alerts = <<>>
    /\ prompts = <<>>

NextDoc == TemplatePreview \/ handleDownloadBlade

SpecDoc == InitDoc /\ [][NextDoc]_vars

(***************************************************************************)
(* Tokens as the specification defines them                                *)
(***************************************************************************)
\* the end of the longest run of key atoms that starts at i
RECURSIVE KeyEnd(_, _)
KeyEnd(s, i) == IF i <= Len(s) /\ s[i] \in KeyAtoms THEN KeyEnd(s, i + 1) ELSE i

\* the token that starts at i: {{, whitespace, $, a key, whitespace, }}
TokenAt(s, i) ==
    IF ~Literal(s, i, <<"{", "{">>) THEN [end |-> 0, key |-> <<>>]
    ELSE LET d == SkipWs(s, i + 2) IN
         IF ~Literal(s, d, <<"$">>) THEN [end |-> 0, key |-> <<>>]
         ELSE LET k == KeyEnd(s, d + 1)
                  c == SkipWs(s, k) IN
              IF Literal(s, c, <<"}", "}">>)
              THEN [end |-> c + 2, key |-> SubSeq(s, d + 1, k - 1)]
              ELSE [end |-> 0, key |-> <<>>]

\* the keys of the tokens of a markup
TokenKeys(s) == {TokenAt(s, i).key : i \in {j \in 1..Len(s) : TokenAt(s, j).end # 0}}

\* the stand-in of a variable: its default value, or its key without one
StandIn(v) ==
    <<SpanOpen, "$">> \o v.key \o <<SpanMid>>
        \o (IF v.defaultValue = <<>> THEN v.key ELSE v.defaultValue) \o <<SpanClose>>

VariableOf(variables, key) ==
    variables[CHOOSE i \in 1..Len(variables) :
                 /\ variables[i].key = key
                 /\ \A j \in 1..(i - 1) : variables[j].key # key]

\* every token of a registered key replaced by that variable's stand-in,
\* everything else left as it is
RECURSIVE Substituted(_, _, _)
Substituted(s, i, variables) ==
    IF i > Len(s) THEN <<>>
    ELSE LET t == TokenAt(s, i) IN
         IF t.end # 0 /\ t.key \in Keys(variables)
         THEN StandIn(VariableOf(variables, t.key)) \o Substituted(s, t.end, variables)
         ELSE <<s[i]>> \o Substituted(s, i + 1, variables)

\* C9: in the preview of each of the four fragments every token of a
\* registered key, with any whitespace inside the braces, is replaced by a
\* stand-in carrying the variable's default value (its key when the default
\* is empty), and every other token is left unchanged
C9_PreviewSubstitution ==
    rendered.shown =>
        /\ rendered.processedContent = Substituted(settings.rawHtmlContent, 1, settings.variables)
        /\ rendered.processedHeader = Substituted(settings.headerContent, 1, settings.variables)
        /\ rendered.processedAttachment = Substituted(settings.attachmentContent, 1, settings.variables)
        /\ rendered.processedFooter = Substituted(settings.footerContent, 1, settings.variables)

DefaultsHoldNoToken(variables) ==
    \A i \in 1..Len(variables) :
        /\ TokenKeys(variables[i].defaultValue) \cap Keys(variables) = {}
        /\ ~\E j \in 1..(Len(variables[i].defaultValue) - 1) :
               Literal(variables[i].defaultValue, j, <<"$", "&">>)

Authoritative == Content(settings, editor.region)

SyncRuns == syncPending /\ Mounted

\* C1: a sync that finds the surface focused and the authoritative fragment
\* different from the surface leaves the surface as it is when the fragment
\* is not empty, and empties it when the fragment is empty
C1_FocusedSync ==
    [][(SyncRuns /\ editor.focused /\ Authoritative # editor.html)
          => editor'.html = (IF Authoritative = <<>> THEN <<>> ELSE editor.html)]_vars

C1_Witness ==
    /\ Mounted /\ editor.focused /\ lastSync = "cleared"
    /\ editor.html = <<>> /\ Authoritative = <<>>

C3_InputPropagation ==
    [][\A html \in Keystrokes(editor.html) :
          RawInput(html) =>
             /\ (settings' # settings) <=> (html # Authoritative)
             /\ Content(settings', editor.region) = editor'.html
             /\ editor'.html = html
             /\ \A f \in DOMAIN settings \ {Field(editor.region)} :
                   settings'[f] = settings[f]]_vars

C3_Witness ==
    /\ Mounted /\ editor.focused /\ edits = 1 /\ lastSync = "equal"
    /\ editor.region = "header"
    /\ settings.headerContent = editor.html
    /\ settings.headerContent # DEFAULT_SETTINGS.headerContent
    /\ settings.rawHtmlContent = DEFAULT_SETTINGS.rawHtmlContent

\* C4: the sync that follows a raw input event finds the surface equal to
\* the authoritative fragment and does not write it; every sync writes the
\* surface at most once and leaves no further sync pending
C4_NoUpdateLoop ==
    [][/\ \A html \in Keystrokes(editor.html) :
             RawInput(html) => (syncPending' => Content(settings', editor.region) = editor'.html)
       /\ (SyncRuns /\ Authoritative = editor.html)
             => (lastSync' = "equal" /\ editor' = editor)
       /\ SyncRuns => (~syncPending' /\ settings' = settings)]_vars

C4_Witness ==
    /\ Mounted /\ editor.focused /\ edits = 1 /\ lastSync = "equal"
    /\ Authoritative = editor.html
    /\ Authoritative # DEFAULT_SETTINGS[Field(editor.region)]

\* C5: whenever the surface is not focused its markup equals the
\* authoritative fragment
C5_DisagreeOnlyWhileFocused ==
    (Idle /\ Mounted /\ ~editor.focused) => editor.html = Authoritative

\* C6: once the focus is outside the surface no authoritative fragment holds
\* the zero-width marker of applyFontSize
C6_NoZeroWidthMarker ==
    \A r \in Regions :
        (Idle /\ ~(editor.region = r /\ editor.focused))
            => ZWSpan \notin Range(Content(settings, r))

\* C7: inserting a variable writes the canonical token at the caret, in any
\* region, and appends a variable with that key to the registry exactly when
\* the registry holds none; on a collision the registry is unchanged
C7_InsertionProtocol ==
    [][\A key \in Keys(settings.variables) \cup {CleanName(n) : n \in SessionNames \ {<<>>}},
          pos \in CaretPositions(editor.html), keepsFocus \in BOOLEAN :
          insertVariable(key, pos, keepsFocus) =>
             /\ editor'.html = InsertAt(editor.html, pos, Token(key))
             /\ IF key \in Keys(settings.variables)
                THEN settings'.variables = settings.variables
                ELSE /\ Len(settings'.variables) = Len(settings.variables) + 1
                     /\ SubSeq(settings'.variables, 1, Len(settings.variables))
                           = settings.variables
                     /\ settings'.variables[Len(settings'.variables)].key = key]_vars

\* C8: no two variables of the registry have the same key
C8_KeysUnique ==
    \A i, j \in 1..Len(settings.variables) :
        i # j => settings.variables[i].key # settings.variables[j].key

(***************************************************************************)
(* The export and the document structure                                   *)
(***************************************************************************)
\* the text of the parts of an element that can hold a token
ElementText(e) ==
    IF e.tag \in {"title", "footer", "header", "content-body", "attachment"}
    THEN e.html
    ELSE IF e.tag = "signatures"
         THEN Flatten([i \in 1..Len(e.entries) |->
                          e.entries[i].dateLine \o <<"\n">> \o e.entries[i].mark
                              \o <<"\n">>])
         ELSE <<>>

\* the text of a document, element after element
DocumentText(doc) ==
    Flatten([i \in 1..Len(doc) |-> ElementText(doc[i]) \o <<"\n">>])

\* the keys referenced by tokens in the four fragments of the settings
FragmentKeys(s) ==
    TokenKeys(s.rawHtmlContent) \cup TokenKeys(s.headerContent)
        \cup TokenKeys(s.footerContent) \cup TokenKeys(s.attachmentContent)

RECURSIVE BladeEval(_, _, _)
BladeEval(doc, i, conds) ==
    IF i > Len(doc) THEN <<>>
    ELSE IF doc[i].tag = "@if" THEN BladeEval(doc, i + 1, <<doc[i].cond>> \o conds)
    ELSE IF doc[i].tag = "@endif" THEN BladeEval(doc, i + 1, Tail(conds))
    ELSE (IF \A j \in 1..Len(conds) : conds[j] THEN <<doc[i]>> ELSE <<>>)
             \o BladeEval(doc, i + 1, conds)

BladeRender(doc) == BladeEval(doc, 1, <<>>)

\* the elements of tag t
OfTag(els, t) == SelectSeq(els, LAMBDA e : e.tag = t)

\* the flow of elements cut at every page-break (page-break-before: always)
RECURSIVE CutPages(_)
CutPages(els) ==
    IF \A i \in 1..Len(els) : els[i].tag # "page-break" THEN <<els>>
    ELSE LET b == CHOOSE i \in 1..Len(els) :
                     /\ els[i].tag = "page-break"
                     /\ \A j \in 1..(i - 1) : els[j].tag # "page-break" IN
         <<SubSeq(els, 1, b - 1)>> \o CutPages(SubSeq(els, b + 1, Len(els)))

\* the printed pages of the export: the body in normal flow, cut at the
\* page breaks, with the fixed-position footer at the bottom of every page
ExportPages(doc) ==
    LET body == SelectSeq(BladeRender(doc), LAMBDA e : e.tag # "title")
        flow == SelectSeq(body, LAMBDA e : e.tag # "footer")
        fixed == OfTag(body, "footer")
        cut == CutPages(flow) IN
    [p \in 1..Len(cut) |-> cut[p] \o fixed]

\* where a class of the preview grid places its entry
PreviewPlacement(class) ==
    CASE class = "col-span-2 flex flex-col items-start text-left" -> "single-left"
      [] class = "col-span-2 flex flex-col items-center text-center" -> "single-center"
      [] class = "col-span-2 flex flex-col items-end text-center" -> "single-right"
      [] class = "col-span-2 justify-self-center" -> "full-center"
      [] class = "justify-self-center" -> "half"

\* where the styles of the export place a block of the container
ExportPlacement(containerStyle, style) ==
    CASE style = "display: inline-block; text-align: center" ->
             (CASE containerStyle = "text-align: left" -> "single-left"
                [] containerStyle = "text-align: center" -> "single-center"
                [] containerStyle = "text-align: right" -> "single-right")
      [] style = "width: 100%; clear: both; float: none; text-align: center" -> "full-center"
      [] style = "width: 50%; float: left; text-align: center" -> "half"

\* the placements of the entries of a signature element
Placements(e) ==
    [i \in 1..Len(e.entries) |->
        IF "style" \in DOMAIN e
        THEN ExportPlacement(e.style, e.entries[i].style)
        ELSE PreviewPlacement(e.entries[i].class)]

\* a structural block: the element without the text of its fragment
Block(e) ==
    CASE e.tag = "header" -> [tag |-> e.tag, logo |-> e.logo]
      [] e.tag = "header-lines" -> [tag |-> e.tag, lines |-> e.lines]
      [] e.tag = "signatures" ->
             [tag |-> e.tag,
              entries |-> [i \in 1..Len(e.entries) |->
                              [label |-> e.entries[i].label,
                               dateLine |-> e.entries[i].dateLine,
                               qr |-> e.entries[i].mark # <<>>,
                               name |-> e.entries[i].name,
                               title |-> e.entries[i].title,
                               placement |-> Placements(e)[i]]]]
      [] OTHER -> [tag |-> e.tag]

\* the blocks of the pages of a document, page after page; the line break
\* of the export is spacing, not a block
Structure(pages) ==
    [p \in 1..Len(pages) |->
        LET els == SelectSeq(pages[p], LAMBDA e : e.tag # "br") IN
        [i \in 1..Len(els) |-> Block(els[i])]]

\* the preview and an export of the same settings are both there
BothShown == rendered.shown /\ download # NoDownload

\* C12: the preview and the export hold the same structural blocks under
\* the same conditions and in the same order, the signature block with the
\* same entries and date line
C12_StructuralIdentity ==
    BothShown => Structure(rendered.pages) = Structure(ExportPages(download))

\* the signature elements of the preview, page after page
PreviewSignatures ==
    Flatten([p \in 1..Len(rendered.pages) |-> OfTag(rendered.pages[p], "signatures")])

\* the signature elements of the exported file
ExportSignatures == OfTag(download, "signatures")

\* a date line: a city, a comma and the token of tanggal
IsDateLine(d) ==
    /\ Len(d) >= 10
    /\ SubSeq(d, Len(d) - 9, Len(d)) = <<",", " ">> \o Token(tanggal)

\* of n entries the last one carries the date line and no other does
DateLineOnLast(entries, n) ==
    /\ Len(entries) = n
    /\ \A i \in 1..n : IF i = n THEN IsDateLine(entries[i].dateLine)
                                ELSE entries[i].dateLine = <<>>

\* C13: for a signature sequence of length N >= 1, in the preview and in
\* the export, the entry at the last index carries the date line
\* "city, {{ $tanggal }}" and every other entry omits it
C13_DateLineOnLast ==
    /\ rendered.shown =>
          /\ \A k \in 1..Len(PreviewSignatures) :
                 DateLineOnLast(PreviewSignatures[k].entries, Len(settings.signatures))
          /\ (settings.showSignature /\ Len(settings.signatures) >= 1)
                 => Len(PreviewSignatures) = 1
    /\ download # NoDownload =>
          /\ Len(ExportSignatures) = 1
          /\ DateLineOnLast(ExportSignatures[1].entries, Len(settings.signatures))

\* the preview and the export of three signatures
C13_Witness ==
    /\ BothShown
    /\ settings.showSignature
    /\ Len(settings.signatures) = 3
    /\ Len(PreviewSignatures) = 1
    /\ IsDateLine(PreviewSignatures[1].entries[3].dateLine)
    /\ IsDateLine(ExportSignatures[1].entries[3].dateLine)

\* the placement the specification gives entry i of the signatures sigs
PlacementRule(sigs, i) ==
    IF Len(sigs) = 1
    THEN CASE sigs[1].align = "left" -> "single-left"
           [] sigs[1].align = "center" -> "single-center"
           [] sigs[1].align = "right" -> "single-right"
           [] sigs[1].align = "absent" -> "single-right"
    ELSE IF Len(sigs) % 2 = 1 /\ i = Len(sigs) THEN "full-center" ELSE "half"

\* the entries of a signature element are the signatures in sequence
\* order, each placed by the rule
PlacedByRule(e, sigs) ==
    /\ Len(e.entries) = Len(sigs)
    /\ \A i \in 1..Len(sigs) :
          /\ e.entries[i].name = sigs[i].name
          /\ Placements(e)[i] = PlacementRule(sigs, i)

\* C14: a single signature is a single-column block aligned by its align
\* field, right without one; of an even number of signatures all are
\* half-width cells in sequence order; of an odd number above one only the
\* last is full-width and centred; the preview and the export agree
C14_GridPlacement ==
    /\ rendered.shown =>
          \A k \in 1..Len(PreviewSignatures) :
              PlacedByRule(PreviewSignatures[k], settings.signatures)
    /\ download # NoDownload =>
          \A k \in 1..Len(ExportSignatures) :
              PlacedByRule(ExportSignatures[k], settings.signatures)
    /\ (BothShown /\ Len(PreviewSignatures) = 1) =>
          Placements(PreviewSignatures[1]) = Placements(ExportSignatures[1])

\* the preview and the export of three signatures, the third full-width
C14_Witness ==
    /\ BothShown
    /\ Len(settings.signatures) = 3
    /\ Len(PreviewSignatures) = 1
    /\ Placements(PreviewSignatures[1]) = <<"half", "half", "full-center">>
    /\ Placements(ExportSignatures[1]) = <<"half", "half", "full-center">>

\* the dividers the specification asks for: one per line, in array
\* order, with the line's own width, style, colour and margins
Dividers(lines) ==
    [i \in 1..Len(lines) |->
        [width |-> lines[i].width, style |-> lines[i].style, color |-> lines[i].color,
         marginTop |-> lines[i].marginTop, marginBottom |-> lines[i].marginBottom]]

\* on every page a header block is followed by the stack of the dividers of
\* lines, and there is no stack elsewhere
StackBeneathHeader(pages, lines) ==
    \A p \in 1..Len(pages) : \A i \in 1..Len(pages[p]) :
        /\ pages[p][i].tag = "header" =>
              /\ i < Len(pages[p])
              /\ pages[p][i + 1].tag = "header-lines"
              /\ pages[p][i + 1].lines = Dividers(lines)
        /\ pages[p][i].tag = "header-lines" =>
              /\ i > 1
              /\ pages[p][i - 1].tag = "header"

\* new is old with a line appended at the end
Appended(old, new) ==
    /\ Len(new) = Len(old) + 1
    /\ SubSeq(new, 1, Len(old)) = old

\* the ids of a are ids of b in the order they have in b
RECURSIVE InOrderOf(_, _)
InOrderOf(a, b) ==
    IF a = <<>> THEN TRUE
    ELSE IF b = <<>> THEN FALSE
    ELSE IF Head(a).id = Head(b).id THEN InOrderOf(Tail(a), Tail(b))
    ELSE InOrderOf(a, Tail(b))

\* new is old without some of its lines, the others in their order
OthersKeepOrder(old, new) == InOrderOf(new, old)

\* new is old with the lines of one id changed or removed, every other
\* line as it was
OnlyOneIdTouched(old, new) ==
    \E id \in LineIds :
        SelectSeq(new, LAMBDA l : l.id # id) = SelectSeq(old, LAMBDA l : l.id # id)

\* C15: in the preview and in the export the stack beneath every rendered
\* header block has one divider per HeaderLine entry, in array order, with
\* that entry's width, style, colour and margins; addHeaderLine appends at
\* the end, and removeHeaderLine and updateHeaderLine keep the other lines
\* in their relative order
C15_HeaderLineStack ==
    [][/\ StackBeneathHeader(rendered'.pages, settings'.headerLines)
       /\ download' # download =>
              LET pages == ExportPages(download') IN
              StackBeneathHeader(pages, settings.headerLines)
       /\ Len(settings'.headerLines) > Len(settings.headerLines) =>
              Appended(settings.headerLines, settings'.headerLines)
       /\ Len(settings'.headerLines) <= Len(settings.headerLines) =>
              /\ OthersKeepOrder(settings.headerLines, settings'.headerLines)
              /\ OnlyOneIdTouched(settings.headerLines, settings'.headerLines)]_vars

\* an export of the stack after a line was removed, one changed and one
\* added, with the header on both pages
C15_Witness ==
    /\ download # NoDownload
    /\ Len(ExportPages(download)) = 2
    /\ \E i \in 1..Len(ExportPages(download)[2]) :
          /\ ExportPages(download)[2][i].tag = "header-lines"
          /\ Len(ExportPages(download)[2][i].lines) = 2
          /\ ExportPages(download)[2][i].lines = Dividers(settings.headerLines)
    /\ Len(settings.headerLines) = 2
    /\ settings.headerLines[1].id = <<"l", 2>>
    /\ settings.headerLines[1].style = "double"
    /\ settings.headerLines[2].id[1] = "line"
    /\ StackBeneathHeader(rendered.pages, settings.headerLines)
    /\ Len(rendered.pages) = 2

\* does the page hold an element of tag t
Holds(page, t) == \E i \in 1..Len(page) : page[i].tag = t

\* the pages are the letter and, iff hasAttachment is set, one page after
\* it that holds the attachment, with the header and its lines iff
\* attachmentShowKop is set; with showFooter every page holds the footer
Paginated(pages, s) ==
    /\ Len(pages) = (IF s.hasAttachment THEN 2 ELSE 1)
    /\ Holds(pages[1], "content-body") /\ ~Holds(pages[1], "attachment")
    /\ s.hasAttachment =>
          /\ Holds(pages[2], "attachment") /\ ~Holds(pages[2], "content-body")
          /\ Holds(pages[2], "header") <=> s.attachmentShowKop
          /\ Holds(pages[2], "header-lines") <=> s.attachmentShowKop
    /\ s.showFooter => \A p \in 1..Len(pages) : Holds(pages[p], "footer")

\* C16: the attachment is rendered iff hasAttachment is set, after a page
\* break on a page of its own; the header with its line stack is repeated
\* there iff attachmentShowKop is set; with showFooter the footer is on
\* every page
C16_AttachmentPagination ==
    /\ rendered.shown => Paginated(rendered.pages, settings)
    /\ download # NoDownload => Paginated(ExportPages(download), settings)

\* the preview and the export of a letter with an attachment, a repeated
\* header and a footer
C16_Witness ==
    /\ BothShown
    /\ settings.hasAttachment /\ settings.attachmentShowKop /\ settings.showFooter
    /\ Len(rendered.pages) = 2 /\ Len(ExportPages(download)) = 2
    /\ Holds(ExportPages(download)[2], "footer")
    /\ Holds(rendered.pages[2], "header")

(***************************************************************************)
(* Units                                                                   *)
(***************************************************************************)
Abs(x) == IF x < 0 THEN -x ELSE x

\* the last decimal place a unit keeps, in 1/10000 mm: 0.01 mm, 0.01 cm,
\* 0.001 in
DecimalPlace(u) ==
    CASE u = "mm" -> 100
      [] u = "cm" -> 1000
      [] u = "in" -> 254

\* new, a count of v's last place, is a nearest one to the length of old
\* counts of u's last place
Nearest(new, v, old, u) ==
    2 * Abs(new * DecimalPlace(v) - old * DecimalPlace(u)) <= DecimalPlace(v)

\* C17: a switch to a different unit sets the unit and replaces the page
\* width, the page height and the four margins by their conversion through
\* millimetres rounded to 2 decimals (mm, cm) or 3 decimals (inch), and
\* leaves every other field as it was; without a change of unit or page
\* size the settings stay as they are
C17_UnitSwitch ==
    [][/\ settings'.unit # settings.unit =>
              /\ \A f \in GeometryFields :
                     Nearest(settings'[f], settings'.unit, settings[f], settings.unit)
              /\ \A f \in DOMAIN settings \ (GeometryFields \cup {"unit"}) :
                     settings'[f] = settings[f]
       /\ (settings'.unit = settings.unit /\ settings'.pageSize = settings.pageSize)
              => settings' = settings]_vars

\* the default page, 21 cm wide, switched to inch: 8.268 in
C17_Witness ==
    /\ Len(passes) >= 2
    /\ passes[1].unit = "cm" /\ passes[1].pageWidth = 2100
    /\ passes[2].unit = "in" /\ passes[2].pageWidth = 8268
    /\ settings.unit = "in" /\ settings.pageWidth = 8268 /\ settings.marginTop = 1575

\* the positions of passes at which a round trip starts: a switch to
\* another unit and a switch back
RoundTrips ==
    {i \in 1..(Len(passes) - 2) : passes[i + 2].unit = passes[i].unit}

\* 0.01 as a count of the unit's last place
Hundredth(u) == IF u = "in" THEN 10 ELSE 1

\* C18 as the specification states it: a round trip returns a value within
\* 0.01 of the original, and further round trips do not move it further
\* away
C18_RoundTrip ==
    \A i \in RoundTrips : \A f \in GeometryFields :
        /\ Abs(passes[i + 2][f] - passes[i][f]) <= Hundredth(passes[i].unit)
        /\ (i + 2 \in RoundTrips /\ passes[i + 3].unit = passes[i + 1].unit) =>
              Abs(passes[i + 4][f] - passes[i][f]) <= Abs(passes[i + 2][f] - passes[i][f])

\* C18: a round trip from u over v returns a value that differs from the
\* original by at most half of u's last place plus half of v's last place,
\* and every further round trip over v returns the value of the first
C18_RoundTripWithinRounding ==
    \A i \in RoundTrips : \A f \in GeometryFields :
        /\ 2 * Abs(passes[i + 2][f] - passes[i][f]) * DecimalPlace(passes[i].unit)
              <= DecimalPlace(passes[i].unit) + DecimalPlace(passes[i + 1].unit)
        /\ (i + 2 \in RoundTrips /\ passes[i + 3].unit = passes[i + 1].unit) =>
              passes[i + 4][f] = passes[i + 2][f]

\* two round trips from mm over cm: the first moves a length, the second
\* does not
C18_Witness ==
    /\ Len(passes) = 5
    /\ passes[1].unit = "mm" /\ passes[2].unit = "cm" /\ passes[3].unit = "mm"
    /\ passes[4].unit = "cm" /\ passes[5].unit = "mm"
    /\ passes[3].marginLeft # passes[1].marginLeft
    /\ passes[5].marginLeft = passes[3].marginLeft

(***************************************************************************)
(* Analysis requests                                                       *)
(***************************************************************************)
\* the files accepted by handleFileUpload whose analysis has not completed:
\* those being read and those sent to the analysis service
Outstanding == Len(reading) + awaiting

\* C19: from the moment a file is accepted until its analysis has
\* completed no second file is accepted and no second call of the analysis
\* service is started: at most one analysis is outstanding
C19_OneAnalysisOutstanding == Outstanding <= 1

\* C20: a completing analysis either fails and leaves the settings alone or
\* applies its whole result to the settings in one step and shows the
\* editor; isAnalyzing is true during the whole service call and false
\* once a call has completed
C20_AtomicApplication ==
    [][/\ awaiting' < awaiting =>
              /\ ~docState'.isAnalyzing
              /\ \/ settings' = settings /\ docState'.analysisError
                 \/ /\ view' = "EDITOR"
                    /\ \E analysis \in SessionAnalyses :
                          settings' = ApplyAnalysis(settings, analysis)
       /\ awaiting > 0 => docState.isAnalyzing]_vars

(***************************************************************************)
(* Failures of the external services and rejected files                    *)
(***************************************************************************)
\* what a failing step leaves alone and what it resets: settings, the view,
\* and the busy flag of the caller
AnalysisFailureContained ==
    /\ settings' = settings
    /\ view' = view
    /\ docState'.analysisError
    /\ ~docState'.isAnalyzing

LogoFailureContained(own) ==
    /\ settings' = settings
    /\ view' = view
    /\ alerts' = Append(alerts, LogoAlert)
    /\ own => ~panel'.isGeneratingLogo

\* C21  Failure containment: a step in which the analysis service or the
\* logo service fails leaves every field of settings and the view as they
\* were, clears the busy flag of the caller (isAnalyzing, isGeneratingLogo),
\* and shows the user a message: an alert, or the analysis error on the
\* screen.
C21_FailureSurfaced ==
    [][/\ AnalysisFails =>
            /\ AnalysisFailureContained
            /\ \/ alerts' # alerts
               \/ AnalysisErrorText \in ShownOfDocState(view', docState')
       /\ \A own \in BOOLEAN : LogoFails(own) => LogoFailureContained(own)]_vars

\* the same without the message of the analysis failure: settings, the view
\* and the busy flags
FailureContained ==
    [][/\ AnalysisFails => AnalysisFailureContained
       /\ \A own \in BOOLEAN : LogoFails(own) => LogoFailureContained(own)]_vars

\* no state of the session changes and no read or service call starts
NothingStarted ==
    /\ settings' = settings
    /\ docState' = docState
    /\ view' = view
    /\ reading' = reading
    /\ awaiting' = awaiting
    /\ generating' = generating

FormattingStep ==
    \/ \E command \in Commands, applies \in BOOLEAN, keepsFocus \in BOOLEAN :
          execCmd(command, applies, keepsFocus)
    \/ \E applies \in BOOLEAN, keepsFocus \in BOOLEAN :
          handleFontFamily(applies, keepsFocus)
    \/ \E pos \in CaretPositions(editor.html), keepsFocus \in BOOLEAN :
          insertHr(pos, keepsFocus)
    \/ \E rowsInput \in TableAnswers \ {Cancel}, colsInput \in TableAnswers \ {Cancel},
          pos \in CaretPositions(editor.html), keepsFocus \in BOOLEAN :
          /\ Count(rowsInput) > 0 /\ Count(colsInput) > 0
          /\ insertTable(rowsInput, colsInput, pos, keepsFocus)
    \/ \E sel \in {"collapsed", "range", "crossing"} :
          applyFontSize(sel, Len(editor.html))
    \/ \E key \in Keys(settings.variables), pos \in CaretPositions(editor.html),
          keepsFocus \in BOOLEAN : insertVariable(key, pos, keepsFocus)

\* C23  After every formatting operation the surface holds the input focus
\* and its markup is the authoritative fragment of its region.
C23_FocusAndPropagation ==
    [][FormattingStep =>
          /\ editor'.focused
          /\ Content(settings', editor'.region) = editor'.html]_vars

\* the same for the propagation alone
FormattingPropagates ==
    [][FormattingStep => Content(settings', editor'.region) = editor'.html]_vars

\* the same for the commands bound to execCmd alone
ExecCmdFocuses ==
    [][\A command \in Commands, applies \in BOOLEAN, keepsFocus \in BOOLEAN :
          execCmd(command, applies, keepsFocus) =>
             /\ editor'.focused
             /\ Content(settings', editor'.region) = editor'.html]_vars

\* C24  Point size on a non-empty selection: whether the selection can be
\* wrapped directly or crosses an element boundary, the surface afterwards
\* holds the span that carries the requested size (by the direct wrap or by
\* extracting, wrapping and reinserting the content), and the new markup is
\* the authoritative fragment.
C24_PointSizeSpan ==
    [][\A sel \in {"range", "crossing"} :
          applyFontSize(sel, Len(editor.html)) =>
             /\ SizeOpen \in Range(editor'.html)
             /\ Content(settings', editor'.region) = editor'.html]_vars

\* the same for a selection that surroundContents can wrap
PointSizeDirectWrap ==
    [][applyFontSize("range", Len(editor.html)) =>
          /\ editor'.html = <<SizeOpen>> \o editor.html \o <<SizeClose>>
          /\ Content(settings', editor'.region) = editor'.html]_vars

\* the rows of a markup: what stands between each <tr> and its </tr>
RECURSIVE RowsOf(_)
RowsOf(t) ==
    IF t = <<>> THEN <<>>
    ELSE IF Head(t) = "<tr>"
         THEN LET end == CHOOSE k \in 1..Len(t) :
                            /\ t[k] = "</tr>"
                            /\ \A j \in 1..(k - 1) : t[j] # "</tr>" IN
              <<SubSeq(t, 2, end - 1)>> \o RowsOf(SubSeq(t, end + 1, Len(t)))
         ELSE RowsOf(Tail(t))

Occurrences(t, a) == Cardinality({i \in 1..Len(t) : t[i] = a})

\* t is one table of one header row of c header cells and r data rows of
\* c cells each
IsTable(t, r, c) ==
    LET rows == RowsOf(t) IN
    /\ Occurrences(t, "<table>") = 1 /\ Occurrences(t, "</table>") = 1
    /\ Len(rows) = r + 1
    /\ Occurrences(rows[1], "<th>") = c /\ Occurrences(rows[1], "<td>") = 0
    /\ \A i \in 2..Len(rows) :
          Occurrences(rows[i], "<td>") = c /\ Occurrences(rows[i], "<th>") = 0
    /\ \A i \in 1..Len(t) : t[i] = "<th>" => \E k \in (i + 1)..Len(t) : t[k] = "</thead>"
    /\ \A i \in 1..Len(t) : t[i] = "<td>" => \E k \in 1..(i - 1) : t[k] = "<tbody>"

\* an answer that is a plain numeral, and one without any digit
PlainNumeral(input) ==
    input # <<>> /\ \A i \in 1..Len(input) : input[i] \in Digits

NonNumeric(input) == \A i \in 1..Len(input) : input[i] \notin Digits

\* the count an answer stands for: the numeral itself when it is at least
\* 1, the default 3 for an empty or non-numeric answer, 0 (unsettled) for
\* every other answer
Asked(input) ==
    IF PlainNumeral(input) /\ LeadingDigits(input, 1, 0) >= 1
    THEN LeadingDigits(input, 1, 0)
    ELSE IF NonNumeric(input) THEN 3 ELSE 0

\* what a step has put into the surface at pos
Inserted(pos) ==
    SubSeq(editor'.html, pos + 1, pos + Len(editor'.html) - Len(editor.html))

\* C25  Table insertion: counts of at least 1 give a table of one header row
\* of C header cells and R data rows of C cells; an empty or non-numeric
\* answer counts as 3; whatever the answers, a table that is inserted has
\* at least one data row and one column; cancelling either prompt changes
\* neither the surface nor the settings.
C25_TableInsertion ==
    [][\A pos \in CaretPositions(editor.html), keepsFocus \in BOOLEAN :
          insertTable(prompts[1], prompts[2], pos, keepsFocus) =>
             LET rowsInput == prompts[1]
                 colsInput == prompts[2] IN
             IF rowsInput = Cancel \/ colsInput = Cancel
             THEN editor'.html = editor.html /\ settings' = settings
             ELSE /\ (Asked(rowsInput) >= 1 /\ Asked(colsInput) >= 1) =>
                        /\ editor'.html = InsertAt(editor.html, pos, Inserted(pos))
                        /\ IsTable(Inserted(pos), Asked(rowsInput), Asked(colsInput))
                        /\ Content(settings', editor'.region) = editor'.html
                  /\ editor'.html # editor.html =>
                        \E r \in 1..3, c \in 1..3 : IsTable(Inserted(pos), r, c)]_vars

\* a table of two data rows and one column stands in the surface and in the
\* fragment
C25_Witness ==
    /\ Mounted /\ edits > 0
    /\ prompts = <<<<"2">>, <<"1">>>>
    /\ IsTable(editor.html, 2, 1)
    /\ Content(settings, editor.region) = editor.html

(***************************************************************************)
(* Sessions                                                                *)
(***************************************************************************)
\* C26  Session creation: a session that starts from the upload view starts
\* with the built-in default (manual creation) or with the built-in default
\* seeded by the analysis record (upload), whatever was edited in a session
\* before it.
C26_SessionStart ==
    [][/\ handleManualCreate => settings' = DEFAULT_SETTINGS
       /\ \A analysis \in SessionAnalyses :
            (view = "UPLOAD" /\ AnalysisSucceeds(analysis)) =>
               settings' = ApplyAnalysis(DEFAULT_SETTINGS, analysis)]_vars

\* the same for manual creation alone
ManualSessionStart ==
    [][handleManualCreate => settings' = DEFAULT_SETTINGS]_vars

\* C27  No lost update: when the read of an attachment image completes, the
\* attachment fragment becomes the fragment as it is at that moment with
\* the image tag appended.
C27_NoLostUpdate ==
    [][(AttachmentReaderOnload /\ Head(attachmentReads).isImage) =>
          settings'.attachmentContent = settings.attachmentContent \o <<ImgWritten>>]_vars

\* C28  A pending analysis does not clobber an open session: when an
\* analysis completes while the editor or the preview of a session is shown
\* (a manual session started while the request was outstanding), the body,
\* the variables and the signatures stay as the user left them and the view
\* stays as it is.
C28_PendingAnalysisKeepsSession ==
    [][\A analysis \in SessionAnalyses :
          (view # "UPLOAD" /\ AnalysisSucceeds(analysis)) =>
             /\ settings'.rawHtmlContent = settings.rawHtmlContent
             /\ settings'.variables = settings.variables
             /\ settings'.signatures = settings.signatures
             /\ view' = view]_vars

(***************************************************************************)
(* Presets                                                                 *)
(***************************************************************************)
\* C29  Preset consistency: whenever pageSize names a preset, pageWidth and
\* pageHeight are that preset's millimetre dimensions converted to the
\* active unit.
C29_PresetConsistency ==
    settings.pageSize # "Custom" =>
       /\ settings.pageWidth
             \in convertValue(PAGE_SIZES[settings.pageSize].width, "mm", settings.unit)
       /\ settings.pageHeight
             \in convertValue(PAGE_SIZES[settings.pageSize].height, "mm", settings.unit)

\* the same right after the preset is chosen, before any unit switch
PresetChosen ==
    (settings.pageSize # "Custom" /\ Len(passes) = 1) =>
       /\ settings.pageWidth
             \in convertValue(PAGE_SIZES[settings.pageSize].width, "mm", settings.unit)
       /\ settings.pageHeight
             \in convertValue(PAGE_SIZES[settings.pageSize].height, "mm", settings.unit)

(***************************************************************************)
(* Keys                                                                    *)
(***************************************************************************)
\* a key of the form [A-Za-z0-9_]+
WellFormedKey(k) == k # <<>> /\ \A i \in 1..Len(k) : k[i] \in KeyAtoms

\* C30  Key well-formedness: whatever name is answered to the New Variable
\* prompt, the text written to the surface is the token of a well-formed
\* key, every key of the registry is well-formed, and a name without any
\* allowed character writes nothing and registers nothing.
C30_KeyWellFormed ==
    [][\A name \in ToolbarNames, pos \in CaretPositions(editor.html),
          keepsFocus \in BOOLEAN :
          promptNewVariable(name, pos, keepsFocus) =>
             /\ \A i \in 1..Len(settings'.variables) :
                    WellFormedKey(settings'.variables[i].key)
             /\ editor'.html # editor.html =>
                    \E n \in ToolbarNames :
                       /\ WellFormedKey(CleanName(n))
                       /\ editor'.html = InsertAt(editor.html, pos, Token(CleanName(n)))
             /\ (\A i \in 1..Len(name) : name[i] \notin KeyAtoms) =>
                    /\ editor'.html = editor.html
                    /\ settings' = settings]_vars

\* the same for the names that hold an allowed character
NamedKeyWellFormed ==
    [][\A name \in ToolbarNames, pos \in CaretPositions(editor.html),
          keepsFocus \in BOOLEAN :
          (WellFormedKey(CleanName(name)) /\ promptNewVariable(name, pos, keepsFocus)) =>
             /\ \A i \in 1..Len(settings'.variables) :
                    WellFormedKey(settings'.variables[i].key)
             /\ editor'.html = InsertAt(editor.html, pos, Token(CleanName(name)))]_vars

====
